---------------------------- MODULE Spec2Model ----------------------------
(***************************************************************************)
(* A model of MultiServerMCP: the session registry (SessionManager), the   *)
(* per-connection context (ClientContext), the group permission check, the *)
(* three capability registries and the request handlers installed on each  *)
(* connection's protocol server.                                           *)
(*                                                                         *)
(* Strings the code splits or rewrites (capability names, connection       *)
(* keys) are sequences of one-character strings, so that split("/") and    *)
(* replace("/", "_") are computed as the code computes them.  A JavaScript *)
(* Map is a sequence of [key, value] entries in insertion order.           *)
(***************************************************************************)
EXTENDS Integers, Sequences, FiniteSets, TLC

VARIABLES
    enableUrlGroups,   \* MultiServerMCP._enableUrlGroups
    clientContexts,    \* SessionManager._clientContexts (a Map)
    permIn,            \* arguments of the hasPermission call under test
    permOut,           \* what that call returned
    smLog,             \* the SessionManager calls made so far, oldest first
    smLast,            \* the last SessionManager call and what it returned
    started,           \* start() has run: the endpoints accept requests
    startOptions,      \* the options start() was called with
    conn,              \* per session id: where its connection stands
    registeredTools,     \* MultiServerMCP.$registeredTools (a Map)
    registeredResources, \* MultiServerMCP.$registeredResources (a Map)
    registeredPrompts,   \* MultiServerMCP.$registeredPrompts (a Map)
    resp               \* the request handled in the last step, and how it ended

vars == <<enableUrlGroups, clientContexts, permIn, permOut, smLog, smLast,
          started, startOptions, conn,
          registeredTools, registeredResources, registeredPrompts, resp>>

permVars == <<permIn, permOut>>
smVars == <<smLog, smLast>>
startVars == <<started, startOptions>>
regVars == <<registeredTools, registeredResources, registeredPrompts>>
serverVars == <<started, startOptions, conn, regVars, resp>>

----------------------------------------------------------------------------
(* Bounds of the model.                                                    *)

MaxPathLen == 3      \* longest group path drawn for a hasPermission call
MaxOps == 4          \* SessionManager calls in one run
MaxRegs == 2         \* keys the three capability registries hold together
MaxCallRegs == 1     \* the same, in the runs that make invocation requests
MaxTemplateParts == 3  \* parts of the longest template drawn for extractVariablesFromUri
MaxUriLen == 4       \* longest uri drawn for it
MaxGrowRegs == 3     \* keys of the three registries, in the runs about their growth
MaxClashRegs == 2    \* the same, in the runs about names that share a key

Null == [null |-> TRUE]    \* JavaScript null / undefined
None == [op |-> "none"]    \* nothing called yet

----------------------------------------------------------------------------
(* JavaScript built-ins the code relies on.                                *)

\* Map.prototype.has
MapHas(m, k) == \E i \in 1..Len(m) : m[i].key = k

\* Map.prototype.get: the value under k, undefined when absent
MapGet(m, k) ==
    IF MapHas(m, k)
    THEN (CHOOSE e \in {m[i] : i \in 1..Len(m)} : e.key = k).value
    ELSE Null

\* Map.prototype.set: an existing key keeps its place, a new key goes last
MapSet(m, k, v) ==
    IF MapHas(m, k)
    THEN [i \in 1..Len(m) |-> IF m[i].key = k THEN [key |-> k, value |-> v] ELSE m[i]]
    ELSE Append(m, [key |-> k, value |-> v])

\* Map.prototype.delete
MapDelete(m, k) == SelectSeq(m, LAMBDA e : e.key # k)

\* Map.prototype.size
MapSize(m) == Len(m)

\* Map.prototype.keys, in insertion order
MapKeys(m) == [i \in 1..Len(m) |-> m[i].key]

\* the index of the first sep in str at or after i, 0 when there is none
RECURSIVE IndexOfFrom(_, _, _)
IndexOfFrom(str, sep, i) ==
    IF i > Len(str) THEN 0
    ELSE IF str[i] = sep THEN i
    ELSE IndexOfFrom(str, sep, i + 1)

\* String.prototype.split(sep) for a one-character separator: every
\* separator ends a segment, empty segments are kept, "" gives [""]
RECURSIVE StrSplit(_, _)
StrSplit(str, sep) ==
    LET i == IndexOfFrom(str, sep, 1) IN
    IF i = 0 THEN <<str>>
    ELSE <<SubSeq(str, 1, i - 1)>> \o StrSplit(SubSeq(str, i + 1, Len(str)), sep)

\* String.prototype.replace(pattern, by) with a string pattern: only the
\* first occurrence is replaced
StrReplaceFirst(str, pat, by) ==
    LET i == IndexOfFrom(str, pat, 1) IN
    IF i = 0 THEN str
    ELSE [j \in 1..Len(str) |-> IF j = i THEN by ELSE str[j]]

\* Array.prototype.slice(0, -1)
SliceButLast(arr) == SubSeq(arr, 1, Len(arr) - 1)

----------------------------------------------------------------------------
(* The permission check.                                                   *)

\* the for loop of hasPermission from index i (1-based here)
RECURSIVE groupsMatchFrom(_, _, _)
groupsMatchFrom(toolGroups, keyGroups, i) ==
    IF i > Len(keyGroups) THEN TRUE
    ELSE IF toolGroups[i] # keyGroups[i] THEN FALSE
    ELSE groupsMatchFrom(toolGroups, keyGroups, i + 1)

\* a hasPermission that forgets the length test and compares only the
\* positions both paths have
hasPermissionNoLengthTest(toolGroups, keyGroups) ==
    IF ~enableUrlGroups THEN TRUE
    ELSE IF Len(keyGroups) = 0 THEN TRUE
    ELSE IF Len(toolGroups) = 0 THEN TRUE
    ELSE \A i \in 1..Len(keyGroups) :
            i <= Len(toolGroups) => toolGroups[i] = keyGroups[i]

hasPermission(toolGroups, keyGroups) ==
    IF ~enableUrlGroups THEN TRUE
    ELSE IF Len(keyGroups) = 0 THEN TRUE
    ELSE IF Len(toolGroups) = 0 THEN TRUE
    ELSE IF Len(toolGroups) < Len(keyGroups) THEN FALSE
    ELSE groupsMatchFrom(toolGroups, keyGroups, 1)

----------------------------------------------------------------------------
(* ClientContext and SessionManager.                                       *)

\* a ClientContext that discards the empty segments of the address
ClientContextDropsEmptySegments(sessionId, uri, reqQuery) ==
    [sessionId |-> sessionId,
     uri       |-> uri,
     urlGroups |-> IF Len(uri) > 0
                   THEN SelectSeq(StrSplit(uri, "/"), LAMBDA segment : segment # <<>>)
                   ELSE <<>>,
     reqQuery  |-> reqQuery]

\* new ClientContext(transport, uri, req, res): the session id is the
\* transport's, the groups are parsed from the key, the query is req.query
ClientContext(sessionId, uri, reqQuery) ==
    [sessionId |-> sessionId,
     uri       |-> uri,
     urlGroups |-> IF Len(uri) > 0 THEN StrSplit(uri, "/") ELSE <<>>,
     reqQuery  |-> reqQuery]

\* a registerClientContext that keeps the context already registered
registerKeepsFirst(contexts, clientContext) ==
    IF MapHas(contexts, clientContext.sessionId) THEN contexts
    ELSE MapSet(contexts, clientContext.sessionId, clientContext)

registerClientContext(contexts, clientContext) ==
    MapSet(contexts, clientContext.sessionId, clientContext)

\* a getClientContext that answers with the context registered first,
\* whatever the identifier
getClientContextOfFirst(contexts, sessionId) ==
    IF contexts = <<>> THEN Null ELSE contexts[1].value

getClientContext(contexts, sessionId) ==
    LET clientContext == MapGet(contexts, sessionId) IN
    IF clientContext = Null THEN Null ELSE clientContext

\* a getReqQuery without the null test: reading reqQuery of null throws
getReqQueryNoNullTest(contexts, sessionId) ==
    LET clientContext == getClientContext(contexts, sessionId) IN
    IF clientContext = Null THEN "TypeError" ELSE clientContext.reqQuery

EmptyQuery == "{}"

getReqQuery(contexts, sessionId) ==
    LET clientContext == getClientContext(contexts, sessionId) IN
    IF clientContext = Null THEN EmptyQuery ELSE clientContext.reqQuery

\* getSseReqQuery: the exported shorthand
getSseReqQuery(contexts, sessionId) == getReqQuery(contexts, sessionId)

\* a removeSession that clears the whole map
removeSessionClearsAll(contexts, sessionId) == <<>>

\* a removeSession written with indexOf and splice: an absent id gives
\* index -1 and splice(-1, 1) removes the last entry
removeSessionSplice(contexts, sessionId) ==
    IF MapHas(contexts, sessionId) THEN MapDelete(contexts, sessionId)
    ELSE SubSeq(contexts, 1, Len(contexts) - 1)

removeSession(contexts, sessionId) == MapDelete(contexts, sessionId)

getSessionCount(contexts) == MapSize(contexts)

----------------------------------------------------------------------------
(* The parts of the state a specification leaves alone.                    *)

SessionIds == {"s1", "s2"}

IdleConn == [phase |-> "idle", closed |-> FALSE, ended |-> FALSE,
             heartbeat |-> FALSE, probe |-> "none", removed |-> FALSE,
             pending |-> None]

NoPermCall ==
    /\ permIn = [toolGroups |-> <<>>, keyGroups |-> <<>>]
    /\ permOut = [called |-> FALSE]

NoSmCalls ==
    /\ smLog = <<>>
    /\ smLast = None

ServerNotStarted ==
    /\ started = FALSE
    /\ startOptions = Null
    /\ conn = [id \in SessionIds |-> IdleConn]
    /\ registeredTools = <<>>
    /\ registeredResources = <<>>
    /\ registeredPrompts = <<>>
    /\ resp = None

----------------------------------------------------------------------------
(* hasPermission on its own: the arguments are drawn at the start and the  *)
(* call is one step.                                                       *)

Segments == {<<"g">>, <<"h">>}

\* every path of at most n segments
RECURSIVE PathsUpTo(_)
PathsUpTo(n) ==
    IF n = 0 THEN {<<>>}
    ELSE LET shorter == PathsUpTo(n - 1) IN
         shorter \cup {Append(p, s) : p \in shorter, s \in Segments}

PermInit ==
    /\ enableUrlGroups \in BOOLEAN
    /\ permIn \in [toolGroups : PathsUpTo(MaxPathLen), keyGroups : PathsUpTo(MaxPathLen)]
    /\ permOut = [called |-> FALSE]
    /\ clientContexts = <<>>
    /\ NoSmCalls
    /\ ServerNotStarted

PermCall ==
    /\ ~permOut.called
    /\ permOut' = [called |-> TRUE,
                   result |-> hasPermission(permIn.toolGroups, permIn.keyGroups)]
    /\ UNCHANGED <<enableUrlGroups, permIn, clientContexts, smVars, serverVars>>

PermNext == PermCall

SpecPerm == PermInit /\ [][PermNext]_vars

----------------------------------------------------------------------------
(* SessionManager on its own: any sequence of its calls.                   *)

SmKeys == {<<>>, <<"g">>}        \* connection keys of the contexts registered
Queries == {"q1"}                \* req.query of the opening request

SmInit ==
    /\ enableUrlGroups = FALSE
    /\ NoPermCall
    /\ clientContexts = <<>>
    /\ NoSmCalls
    /\ ServerNotStarted

SmRegister(clientContext) ==
    /\ Len(smLog) < MaxOps
    /\ clientContexts' = registerClientContext(clientContexts, clientContext)
    /\ smLog' = Append(smLog, [op |-> "register", id |-> clientContext.sessionId,
                               context |-> clientContext])
    /\ smLast' = [op |-> "register", id |-> clientContext.sessionId,
                  before |-> clientContexts]
    /\ UNCHANGED <<enableUrlGroups, permVars, serverVars>>

SmRemove(sessionId) ==
    /\ Len(smLog) < MaxOps
    /\ clientContexts' = removeSession(clientContexts, sessionId)
    /\ smLog' = Append(smLog, [op |-> "remove", id |-> sessionId])
    /\ smLast' = [op |-> "remove", id |-> sessionId, before |-> clientContexts]
    /\ UNCHANGED <<enableUrlGroups, permVars, serverVars>>

SmGetClientContext(sessionId) ==
    /\ smLast' = [op |-> "getClientContext", id |-> sessionId,
                  before |-> clientContexts,
                  result |-> getClientContext(clientContexts, sessionId)]
    /\ UNCHANGED <<enableUrlGroups, permVars, clientContexts, smLog, serverVars>>

SmGetReqQuery(sessionId) ==
    /\ smLast' = [op |-> "getReqQuery", id |-> sessionId,
                  before |-> clientContexts,
                  result |-> getReqQuery(clientContexts, sessionId)]
    /\ UNCHANGED <<enableUrlGroups, permVars, clientContexts, smLog, serverVars>>

SmGetSseReqQuery(sessionId) ==
    /\ smLast' = [op |-> "getSseReqQuery", id |-> sessionId,
                  before |-> clientContexts,
                  result |-> getSseReqQuery(clientContexts, sessionId)]
    /\ UNCHANGED <<enableUrlGroups, permVars, clientContexts, smLog, serverVars>>

SmGetSessionCount ==
    /\ smLast' = [op |-> "getSessionCount", before |-> clientContexts,
                  result |-> getSessionCount(clientContexts)]
    /\ UNCHANGED <<enableUrlGroups, permVars, clientContexts, smLog, serverVars>>

SmNext ==
    \/ \E id \in SessionIds, uri \in SmKeys, q \in Queries :
          SmRegister(ClientContext(id, uri, q))
    \/ \E id \in SessionIds : SmRemove(id)
    \/ \E id \in SessionIds : SmGetClientContext(id)
    \/ \E id \in SessionIds : SmGetReqQuery(id)
    \/ \E id \in SessionIds : SmGetSseReqQuery(id)
    \/ SmGetSessionCount

SpecSM == SmInit /\ [][SmNext]_vars

----------------------------------------------------------------------------
(* Properties of hasPermission (checked under SpecPerm).                   *)

\* s is, index by index, a prefix of c
IsPrefixOf(s, c) ==
    /\ Len(s) <= Len(c)
    /\ \A i \in 1..Len(s) : s[i] = c[i]

\* C2: with enforcement enabled, hasPermission(c, s) is true exactly when s
\* is empty, or c is empty, or s is an index-wise prefix of c, and false in
\* every other case; in particular hasPermission(c, c) is true.
PermissionIsPrefixMatch ==
    (permOut.called /\ enableUrlGroups) =>
        LET c == permIn.toolGroups
            s == permIn.keyGroups
        IN  /\ permOut.result = (s = <<>> \/ c = <<>> \/ IsPrefixOf(s, c))
            /\ (c = s => permOut.result = TRUE)
            /\ (c # <<>> /\ Len(c) < Len(s) => permOut.result = FALSE)

\* a non-empty capability group that is a proper prefix of the session's
\* path has been checked and denied
PermissionDeniedShorterGroup ==
    /\ permOut.called
    /\ enableUrlGroups
    /\ permIn.toolGroups = << <<"g">> >>
    /\ permIn.keyGroups = << <<"g">>, <<"h">> >>
    /\ permOut.result = FALSE

----------------------------------------------------------------------------
(* Properties of SessionManager (checked under SpecSM).                    *)

\* what the calls in log leave registered under id: the context of the
\* last register of id when no remove of id follows it, else nothing
RECURSIVE LiveContext(_, _)
LiveContext(log, id) ==
    IF log = <<>> THEN Null
    ELSE LET last == log[Len(log)] IN
         IF last.id # id THEN LiveContext(SubSeq(log, 1, Len(log) - 1), id)
         ELSE IF last.op = "register" THEN last.context
         ELSE Null

\* C8: after any sequence of registerClientContext and removeSession calls
\* each sessionId maps to at most one context, getClientContext(id) is the
\* context of the most recent registration of id not followed by a removal
\* of id, and getSessionCount() is the number of ids that have one.
RegistryIsLastWrite ==
    /\ \A id \in SessionIds :
          /\ Cardinality({i \in 1..Len(clientContexts) : clientContexts[i].key = id}) <= 1
          /\ getClientContext(clientContexts, id) = LiveContext(smLog, id)
    /\ getSessionCount(clientContexts) =
          Cardinality({id \in SessionIds : LiveContext(smLog, id) # Null})

\* an id registered twice with different contexts and not removed since
RegisteredTwice ==
    \E i, j \in 1..Len(smLog) :
        /\ i < j
        /\ smLog[i].op = "register" /\ smLog[j].op = "register"
        /\ smLog[i].id = smLog[j].id
        /\ smLog[i].context # smLog[j].context
        /\ \A k \in (j + 1)..Len(smLog) : smLog[k].id # smLog[j].id
        /\ getClientContext(clientContexts, smLog[j].id) = smLog[j].context

\* C9: removing an id that is not registered (never registered, or already
\* removed) leaves the registry's contents and size as they were.
RemoveAbsentChangesNothing ==
    (smLast.op = "remove" /\ ~MapHas(smLast.before, smLast.id)) =>
        /\ clientContexts = smLast.before
        /\ getSessionCount(clientContexts) = getSessionCount(smLast.before)

\* the same id removed twice in a row while another session is registered
RemovedTwice ==
    /\ Len(smLog) >= 3
    /\ smLog[Len(smLog)].op = "remove"
    /\ smLog[Len(smLog) - 1].op = "remove"
    /\ smLog[Len(smLog)].id = smLog[Len(smLog) - 1].id
    /\ smLast.op = "remove"
    /\ getSessionCount(clientContexts) = 1

\* C10: a lookup of a sessionId that is not registered returns null from
\* getClientContext and an empty object from getReqQuery and getSseReqQuery,
\* and leaves the registry as it was.
AbsentLookupReportsAbsence ==
    (smLast.op \in {"getClientContext", "getReqQuery", "getSseReqQuery"}
        /\ ~MapHas(smLast.before, smLast.id)) =>
        /\ smLast.op = "getClientContext" => smLast.result = Null
        /\ smLast.op \in {"getReqQuery", "getSseReqQuery"} => smLast.result = EmptyQuery
        /\ clientContexts = smLast.before

\* getSseReqQuery was called for a removed id while another is registered
AbsentLookupAfterRemove ==
    /\ smLast.op = "getSseReqQuery"
    /\ ~MapHas(clientContexts, smLast.id)
    /\ \E k \in 1..Len(smLog) : smLog[k].op = "remove" /\ smLog[k].id = smLast.id
    /\ \E k \in 1..Len(smLog) : smLog[k].op = "register" /\ smLog[k].id = smLast.id
    /\ getSessionCount(clientContexts) = 1
    /\ smLast.result = EmptyQuery

----------------------------------------------------------------------------
(* The life of a connection: the SSE endpoint handler, connectServer, the  *)
(* heartbeat timer and the request's close and end events.                 *)
(*                                                                         *)
(* conn[id].phase is "idle" before the SSE request, "connecting" while     *)
(* connectServer awaits server.connect, "active" once connectServer has    *)
(* started the heartbeat and attached the close and end listeners, and     *)
(* "failed" when server.connect rejected and the endpoint handler answered *)
(* 500 and ended the response.                                             *)

\* connection keys: "", "g", "g/h", "o"
Keys == {<<>>, <<"g">>, <<"g", "/", "h">>, <<"o">>}

StartOptions == {[transportType |-> "sse"],
                 [transportType |-> "sse", enableUrlGroups |-> TRUE]}

ServerInit ==
    /\ enableUrlGroups \in BOOLEAN
    /\ clientContexts = <<>>
    /\ NoPermCall
    /\ NoSmCalls
    /\ ServerNotStarted

\* start(options): only transportType and sse are read from the options
Start(options) ==
    /\ ~started
    /\ options.transportType = "sse"
    /\ started' = TRUE
    /\ startOptions' = options
    /\ resp' = None
    /\ UNCHANGED <<enableUrlGroups, clientContexts, permVars, smVars, conn, regVars>>

\* an SSE endpoint whose connectServer starts the handshake without having
\* registered the session
SseRequestRegistersLater(id, key, query) ==
    /\ started
    /\ conn[id].phase = "idle"
    /\ conn' = [conn EXCEPT ![id].phase = "connecting"]
    /\ resp' = None
    /\ UNCHANGED <<enableUrlGroups, clientContexts, permVars, smVars, startVars, regVars>>

\* GET on the SSE endpoint: the context is built and connectServer runs up
\* to its await of server.connect
SseRequest(id, key, query) ==
    /\ started
    /\ conn[id].phase = "idle"
    /\ clientContexts' = registerClientContext(clientContexts, ClientContext(id, key, query))
    /\ conn' = [conn EXCEPT ![id].phase = "connecting"]
    /\ resp' = None
    /\ UNCHANGED <<enableUrlGroups, permVars, smVars, startVars, regVars>>

\* server.connect resolved: the heartbeat interval is set and the close and
\* end listeners are attached
ConnectResolves(id) ==
    /\ conn[id].phase = "connecting"
    /\ conn' = [conn EXCEPT ![id].phase = "active", ![id].heartbeat = TRUE]
    /\ resp' = None
    /\ UNCHANGED <<enableUrlGroups, clientContexts, permVars, smVars, startVars, regVars>>

\* server.connect rejected: connectServer throws, the endpoint handler logs
\* and ends the response with status 500
ConnectRejects(id) ==
    /\ conn[id].phase = "connecting"
    /\ conn' = [conn EXCEPT ![id].phase = "failed"]
    /\ resp' = None
    /\ UNCHANGED <<enableUrlGroups, clientContexts, permVars, smVars, startVars, regVars>>

\* one run of the interval callback; ping either succeeds, throws (caught:
\* the interval is cleared) or fails later as a rejected promise (not caught)
HeartbeatTick(id, outcome) ==
    /\ conn[id].heartbeat
    /\ conn' = [conn EXCEPT
                  ![id].probe = outcome,
                  ![id].heartbeat = IF outcome = "throws" THEN FALSE ELSE @]
    /\ resp' = None
    /\ UNCHANGED <<enableUrlGroups, clientContexts, permVars, smVars, startVars, regVars>>

\* the request's close event; the listener exists only once connectServer
\* has attached it
ReqClose(id) ==
    /\ conn[id].phase # "idle"
    /\ ~conn[id].closed
    /\ IF conn[id].phase = "active"
       THEN /\ conn' = [conn EXCEPT ![id].closed = TRUE, ![id].heartbeat = FALSE,
                                    ![id].removed = TRUE]
            /\ clientContexts' = removeSession(clientContexts, id)
       ELSE /\ conn' = [conn EXCEPT ![id].closed = TRUE]
            /\ UNCHANGED clientContexts
    /\ resp' = None
    /\ UNCHANGED <<enableUrlGroups, permVars, smVars, startVars, regVars>>

\* the request's end event, which comes before close when it comes
ReqEnd(id) ==
    /\ conn[id].phase # "idle"
    /\ ~conn[id].closed
    /\ ~conn[id].ended
    /\ conn' = [conn EXCEPT
                  ![id].ended = TRUE,
                  ![id].heartbeat = IF conn[id].phase = "active" THEN FALSE ELSE @]
    /\ resp' = None
    /\ UNCHANGED <<enableUrlGroups, clientContexts, permVars, smVars, startVars, regVars>>

\* a handleMessage that hands the message over without testing the lookup:
\* an absent context's transport is the one the id named
handleMessageNoLookupTest(sessionId) ==
    IF sessionId = "" THEN [status |-> 400, error |-> "missing sessionId", handed |-> <<>>]
    ELSE [status |-> 202, error |-> "", handed |-> <<sessionId>>]

\* a handleMessage that hands the message to the transport of the first
\* registered context
handleMessageFirstTransport(sessionId) ==
    IF sessionId = "" THEN [status |-> 400, error |-> "missing sessionId", handed |-> <<>>]
    ELSE IF clientContexts = <<>>
    THEN [status |-> 404, error |-> "client not found", handed |-> <<>>]
    ELSE [status |-> 202, error |-> "", handed |-> <<clientContexts[1].value.sessionId>>]

\* handleMessage: the reply's status and the transports (named by their
\* session id) the message was handed to; a missing sessionId is ""
handleMessage(sessionId) ==
    LET clientContext == getClientContext(clientContexts, sessionId) IN
    IF sessionId = "" THEN [status |-> 400, error |-> "missing sessionId", handed |-> <<>>]
    ELSE IF clientContext = Null
    THEN [status |-> 404, error |-> "client not found", handed |-> <<>>]
    ELSE [status |-> 202, error |-> "", handed |-> <<clientContext.sessionId>>]

\* a message endpoint that takes the session's query from each message
PostMessageRefreshesQuery(sessionId, query) ==
    /\ started
    /\ resp' = [op |-> "message", sessionId |-> sessionId, query |-> query,
                outcome |-> handleMessage(sessionId)]
    /\ clientContexts' =
          IF MapHas(clientContexts, sessionId)
          THEN MapSet(clientContexts, sessionId,
                      [MapGet(clientContexts, sessionId) EXCEPT !.reqQuery = query])
          ELSE clientContexts
    /\ UNCHANGED <<enableUrlGroups, permVars, smVars, startVars, conn, regVars>>

\* POST on the message endpoint; of the request's query parameters
\* handleMessage reads sessionId only
PostMessage(sessionId, query) ==
    /\ started
    /\ resp' = [op |-> "message", sessionId |-> sessionId, query |-> query,
                outcome |-> handleMessage(sessionId)]
    /\ UNCHANGED <<enableUrlGroups, clientContexts, permVars, smVars, startVars, conn, regVars>>

\* what server.server.ping() does on a tick
ProbeOutcomes == {"ok", "throws", "rejects"}

\* the sessionId query parameter of a posted message: missing, or an id
PostIds == SessionIds \cup {""}

LifeNext ==
    \/ \E options \in StartOptions : Start(options)
    \/ \E id \in SessionIds, key \in Keys, query \in Queries : SseRequest(id, key, query)
    \/ \E id \in SessionIds : ConnectResolves(id)
    \/ \E id \in SessionIds : ConnectRejects(id)
    \/ \E id \in SessionIds, outcome \in ProbeOutcomes : HeartbeatTick(id, outcome)
    \/ \E id \in SessionIds : ReqClose(id)
    \/ \E id \in SessionIds : ReqEnd(id)
    \/ \E sessionId \in PostIds, query \in Queries : PostMessage(sessionId, query)

SpecLife == ServerInit /\ [][LifeNext]_vars

\* the handlers of one connection run when their events come
LifeFairness ==
    \A id \in SessionIds :
        /\ WF_vars(ConnectResolves(id) \/ ConnectRejects(id))
        /\ WF_vars(ReqClose(id))

SpecLifeFair == SpecLife /\ LifeFairness

----------------------------------------------------------------------------
(* Properties of the connection life cycle (checked under SpecLife).       *)

\* the connection's stream has ended: the request closed, or the endpoint
\* handler ended the response after a failed handshake
StreamEnded(id) == conn[id].closed \/ conn[id].phase = "failed"

\* nothing of connectServer is still pending for the connection
HandshakeSettled(id) == conn[id].phase \in {"active", "failed"}

\* C6: once a connection's stream has ended its session is eventually
\* absent from the SessionRegistry.
EndedSessionEventuallyRemoved ==
    \A id \in SessionIds :
        StreamEnded(id) ~> ~MapHas(clientContexts, id)

\* C6, at the end of a connection's run: when the stream has ended, the
\* close event has been delivered and the handshake is no longer pending,
\* the session is absent from the SessionRegistry.
EndedSessionIsRemoved ==
    \A id \in SessionIds :
        (conn[id].closed /\ HandshakeSettled(id)) => ~MapHas(clientContexts, id)

\* C7: when a liveness probe of an active connection has failed, its probe
\* timer is cancelled and its session is removed from the SessionRegistry,
\* without waiting for a close event.
ProbeFailureRemovesSession ==
    \A id \in SessionIds :
        (conn[id].probe \in {"throws", "rejects"} /\ ~conn[id].closed) =>
            /\ ~conn[id].heartbeat
            /\ ~MapHas(clientContexts, id)

\* the connection has reached Closed: its close handler has run and removed
\* the session
Closed(id) == conn[id].removed

\* C11: after a connection has reached Closed, every message posted with
\* its sessionId is answered 404 'client not found' and is handed to no
\* transport, and the connection stays Closed.
NoMessageServedAfterClosed ==
    /\ \A id \in SessionIds : Closed(id) => ~MapHas(clientContexts, id)
    /\ (resp.op = "message" /\ resp.sessionId \in SessionIds /\ Closed(resp.sessionId)) =>
          /\ resp.outcome.status = 404
          /\ resp.outcome.error = "client not found"
          /\ resp.outcome.handed = <<>>

\* a message was posted for a connection that had served and then closed
MessagePostedAfterClosed ==
    /\ resp.op = "message"
    /\ resp.sessionId \in SessionIds
    /\ Closed(resp.sessionId)
    /\ conn[resp.sessionId].phase = "active"

----------------------------------------------------------------------------
(* Registration: tool(), resource() and prompt().  The arguments after the *)
(* name are a sequence of values tagged with what the code tests of them.  *)

Str(s) == [type |-> "string", v |-> s]
Fn(f) == [type |-> "function", v |-> f]
\* a plain object of fields, such as a ZodRawShape or a ResourceMetadata
Obj(fields) == [type |-> "object", zod |-> FALSE, fields |-> fields]
\* a Zod schema object: it has a safeParseAsync method
ZodSchema(fields) == [type |-> "object", zod |-> TRUE, fields |-> fields]
Template(s) == [type |-> "ResourceTemplate", uriTemplate |-> s]

\* own enumerable properties every Zod type instance carries (the first of
\* them): none of them is a Zod type
ZodInstanceProps == <<"spa", "_def", "parse">>

\* z.object(shape): the fields are the own enumerable properties of shape,
\* which are validators only when shape is a plain object of Zod types
ZObject(shape) ==
    [zodObject |-> TRUE,
     shape |-> IF shape.zod
               THEN [fields |-> [i \in 1..Len(ZodInstanceProps) |->
                                   [name |-> ZodInstanceProps[i], optional |-> FALSE]],
                     validators |-> FALSE]
               ELSE [fields |-> shape.fields, validators |-> TRUE]]

\* a parseToolGroup that keeps the last segment in the group
parseToolGroupKeepsLeaf(name) ==
    IF ~enableUrlGroups THEN <<>>
    ELSE IF Len(name) = 0 THEN <<>>
    ELSE LET parts == StrSplit(name, "/") IN
         IF Len(parts) > 1 THEN parts ELSE <<>>

parseToolGroup(name) ==
    IF ~enableUrlGroups THEN <<>>
    ELSE IF Len(name) = 0 THEN <<>>
    ELSE LET parts == StrSplit(name, "/") IN
         IF Len(parts) > 1 THEN SliceButLast(parts) ELSE <<>>

\* the record tool(name, ...rest) stores, under the key toolRecord(..).name
toolRecord(name, rest) ==
    LET group == parseToolGroup(name)
        key == StrReplaceFirst(name, "/", "_")
        hasDescription == Len(rest) > 0 /\ rest[1].type = "string"
        args1 == IF hasDescription THEN Tail(rest) ELSE rest
        hasSchema == Len(args1) > 1
        args2 == IF hasSchema THEN Tail(args1) ELSE args1
    IN  [name        |-> key,
         group       |-> group,
         description |-> IF hasDescription THEN rest[1] ELSE Null,
         inputSchema |-> IF hasSchema THEN ZObject(args1[1]) ELSE Null,
         callback    |-> IF Len(args2) > 0 THEN args2[1] ELSE Null]

\* a resourceRecord that stores whatever the call supplied
resourceRecordNoShapeTest(name, rest) ==
    [name         |-> name,
     group        |-> parseToolGroup(name),
     uri          |-> IF Len(rest) > 0 /\ rest[1].type = "string" THEN rest[1] ELSE Null,
     template     |-> IF Len(rest) > 0 /\ rest[1].type = "ResourceTemplate"
                      THEN rest[1] ELSE Null,
     metadata     |-> Null,
     readCallback |-> IF Len(rest) > 1 THEN rest[Len(rest)] ELSE Null,
     type         |-> IF Len(rest) > 0 /\ rest[1].type = "string" THEN "uri" ELSE "template"]

\* the record resource(name, ...rest) stores under name, or Null when the
\* registration is refused
resourceRecord(name, rest) ==
    LET group == parseToolGroup(name)
        isUri == Len(rest) > 0 /\ rest[1].type = "string"
        isTemplate == Len(rest) > 0 /\ rest[1].type = "ResourceTemplate"
        hasType == isUri \/ isTemplate
        metadata == IF hasType /\ Len(rest) = 3 THEN rest[2] ELSE Null
        readCallback ==
            IF hasType /\ Len(rest) = 2 THEN rest[2]
            ELSE IF hasType /\ Len(rest) = 3 THEN rest[3]
            ELSE Null
    IN  IF readCallback = Null \/ ~hasType THEN Null
        ELSE [name         |-> name,
              group        |-> group,
              uri          |-> IF isUri THEN rest[1] ELSE Null,
              template     |-> IF isTemplate THEN rest[1] ELSE Null,
              metadata     |-> metadata,
              readCallback |-> readCallback,
              type         |-> IF isUri THEN "uri" ELSE "template"]

\* the record prompt(name, ...rest) stores, under the key promptRecord(..).name
promptRecord(name, rest) ==
    LET group == parseToolGroup(name)
        key == StrReplaceFirst(name, "/", "_")
        hasDescription == Len(rest) > 0 /\ rest[1].type = "string"
        args1 == IF hasDescription THEN Tail(rest) ELSE rest
        hasSchemaArg == Len(args1) > 1
        schemaArg == args1[1]
        isZod == hasSchemaArg /\ schemaArg.type = "object" /\ schemaArg.zod
        args2 == IF hasSchemaArg THEN Tail(args1) ELSE args1
        description ==
            IF hasDescription THEN rest[1]
            ELSE IF hasSchemaArg /\ ~isZod /\ schemaArg.type = "string" THEN schemaArg
            ELSE Null
    IN  [name        |-> key,
         group       |-> group,
         description |-> description,
         argsSchema  |-> IF isZod THEN ZObject(schemaArg) ELSE Null,
         callback    |-> IF Len(args2) > 0 THEN args2[1] ELSE Null]

\* a run stops adding keys once the three registries hold max of them
RoomFor(max, registry, key) ==
    \/ MapHas(registry, key)
    \/ Len(registeredTools) + Len(registeredResources) + Len(registeredPrompts) < max

RegisterTool(name, rest) ==
    /\ registeredTools' = MapSet(registeredTools, toolRecord(name, rest).name,
                                 toolRecord(name, rest))
    /\ UNCHANGED <<enableUrlGroups, clientContexts, permVars, smVars, startVars, conn,
                   registeredResources, registeredPrompts>>
    /\ resp' = None

RegisterResource(name, rest) ==
    /\ registeredResources' =
          IF resourceRecord(name, rest) = Null THEN registeredResources
          ELSE MapSet(registeredResources, name, resourceRecord(name, rest))
    /\ UNCHANGED <<enableUrlGroups, clientContexts, permVars, smVars, startVars, conn,
                   registeredTools, registeredPrompts>>
    /\ resp' = None

\* a prompt() that also empties the tool registry
RegisterPromptClearsTools(name, rest) ==
    /\ registeredPrompts' = MapSet(registeredPrompts, promptRecord(name, rest).name,
                                   promptRecord(name, rest))
    /\ registeredTools' = <<>>
    /\ UNCHANGED <<enableUrlGroups, clientContexts, permVars, smVars, startVars, conn,
                   registeredResources>>
    /\ resp' = None

RegisterPrompt(name, rest) ==
    /\ registeredPrompts' = MapSet(registeredPrompts, promptRecord(name, rest).name,
                                   promptRecord(name, rest))
    /\ UNCHANGED <<enableUrlGroups, clientContexts, permVars, smVars, startVars, conn,
                   registeredTools, registeredResources>>
    /\ resp' = None

----------------------------------------------------------------------------
(* The listing handlers installed on each connection's protocol server.    *)

\* a handler that ends by throwing error
Throw(error) == [kind |-> "throw", error |-> error]
\* the errors thrown: message is the text with the name it mentions
McpError(code, message) == [kind |-> "McpError", code |-> code, message |-> message]
Error(message) == [kind |-> "Error", message |-> message]
\* reading a property of undefined, calling what is not a function
TypeError == [kind |-> "TypeError"]

\* characters that \w does not match; every other character of the model is
\* a letter, a digit or "_"
NonWordChars == {"/", ":", "{", "}", ".", "-", ","}

\* the end of the run of \w characters that starts at i: the first index
\* at or after i that holds no \w character
RECURSIVE WordRunEnd(_, _)
WordRunEnd(str, i) ==
    IF i > Len(str) \/ str[i] \in NonWordChars THEN i
    ELSE WordRunEnd(str, i + 1)

\* extractVariableNames from index i on: the matches of /{(\w+)}/g
RECURSIVE extractVariableNamesFrom(_, _)
extractVariableNamesFrom(template, i) ==
    IF i > Len(template) THEN <<>>
    ELSE LET j == WordRunEnd(template, i + 1) IN
         IF template[i] = "{" /\ j > i + 1 /\ j <= Len(template) /\ template[j] = "}"
         THEN <<SubSeq(template, i + 1, j - 1)>> \o extractVariableNamesFrom(template, j + 1)
         ELSE extractVariableNamesFrom(template, i + 1)

extractVariableNames(template) == extractVariableNamesFrom(template, 1)

\* promptArgumentsFromSchema: one argument per field of the schema's shape
promptArgumentsFromSchema(schema) ==
    [i \in 1..Len(schema.shape.fields) |->
        [name |-> schema.shape.fields[i].name,
         required |-> ~schema.shape.fields[i].optional]]

\* zodToJsonSchema(schema), or the default shape of a tool without a schema
toolInputSchema(tool) ==
    IF tool.inputSchema # Null
    THEN [type |-> "object", properties |-> tool.inputSchema.shape.fields]
    ELSE [type |-> "object"]

\* the entries of a registry the session may see; the filter reads
\* clientContext.urlGroups for each entry
visibleEntries(registry, clientContext) ==
    SelectSeq(registry, LAMBDA e : hasPermission(e.value.group, clientContext.urlGroups))

\* the ListTools handler
listTools(sessionId) ==
    LET clientContext == getClientContext(clientContexts, sessionId) IN
    IF Len(registeredTools) > 0 /\ clientContext = Null THEN Throw(TypeError)
    ELSE LET visible == visibleEntries(registeredTools, clientContext) IN
         [kind |-> "result",
          list |-> [i \in 1..Len(visible) |->
                      [name |-> visible[i].key,
                       description |-> visible[i].value.description,
                       inputSchema |-> toolInputSchema(visible[i].value)]]]

\* a resource record the map step of ListResources can project
listableResource(resource) ==
    \/ resource.type = "uri" /\ resource.uri # Null /\ Len(resource.uri.v) > 0
    \/ resource.type = "template" /\ resource.template # Null

\* the ListResources handler
listResources(sessionId) ==
    LET clientContext == getClientContext(clientContexts, sessionId) IN
    IF Len(registeredResources) > 0 /\ clientContext = Null THEN Throw(TypeError)
    ELSE LET visible == visibleEntries(registeredResources, clientContext) IN
         IF \E i \in 1..Len(visible) : ~listableResource(visible[i].value)
         THEN Throw(Error("Invalid resource registration found"))
         ELSE [kind |-> "result",
               list |-> [i \in 1..Len(visible) |->
                           LET resource == visible[i].value IN
                           IF resource.type = "uri"
                           THEN [name |-> visible[i].key,
                                 uri |-> resource.uri.v,
                                 metadata |-> resource.metadata]
                           ELSE [name |-> visible[i].key,
                                 uri |-> resource.template.uriTemplate,
                                 variables |-> extractVariableNames(resource.template.uriTemplate),
                                 metadata |-> resource.metadata]]]

\* the ListPrompts handler
listPrompts(sessionId) ==
    LET clientContext == getClientContext(clientContexts, sessionId) IN
    IF Len(registeredPrompts) > 0 /\ clientContext = Null THEN Throw(TypeError)
    ELSE LET visible == visibleEntries(registeredPrompts, clientContext) IN
         [kind |-> "result",
          list |-> [i \in 1..Len(visible) |->
                      [name |-> visible[i].key,
                       description |-> visible[i].value.description,
                       arguments |-> IF visible[i].value.argsSchema # Null
                                     THEN promptArgumentsFromSchema(visible[i].value.argsSchema)
                                     ELSE <<>>]]]

\* the connection's protocol server handles requests once server.connect
\* has resolved; a request can still be in flight when the session goes
\* a server on which a handler waits for every pending callback before the
\* next request is served
ServingOneAtATime(id) ==
    /\ conn[id].phase = "active"
    /\ \A other \in SessionIds : conn[other].pending = None

Serving(id) == conn[id].phase = "active"

ListTools(id) ==
    /\ Serving(id)
    /\ resp' = [op |-> "tools/list", sessionId |-> id, outcome |-> listTools(id)]
    /\ UNCHANGED <<enableUrlGroups, clientContexts, permVars, smVars, startVars, conn, regVars>>

ListResources(id) ==
    /\ Serving(id)
    /\ resp' = [op |-> "resources/list", sessionId |-> id, outcome |-> listResources(id)]
    /\ UNCHANGED <<enableUrlGroups, clientContexts, permVars, smVars, startVars, conn, regVars>>

ListPrompts(id) ==
    /\ Serving(id)
    /\ resp' = [op |-> "prompts/list", sessionId |-> id, outcome |-> listPrompts(id)]
    /\ UNCHANGED <<enableUrlGroups, clientContexts, permVars, smVars, startVars, conn, regVars>>

----------------------------------------------------------------------------
(* The server with its registrations, one connection and the listing       *)
(* requests.                                                               *)

\* "a", "g/h/a"
ToolNames == {<<"a">>, <<"g", "/", "h", "/", "a">>}
ToolRests == {<<Fn("t1")>>,
              <<Str(<<"d">>), Obj(<<[name |-> "x", optional |-> FALSE]>>), Fn("t2")>>}

\* "a", "g/a"
ResourceNames == {<<"a">>, <<"g", "/", "a">>}
\* the uris "u:x" and "", the template "u:{n}", a call without callback and
\* a call whose first argument is neither a string nor a template
ResourceRests == {<<Str(<<"u", ":", "x">>), Fn("r1")>>,
                  <<Str(<<>>), Obj(<<>>), Fn("r2")>>,
                  <<Template(<<"u", ":", "{", "n", "}">>), Fn("r3")>>,
                  <<Str(<<"u", ":", "x">>)>>,
                  <<Obj(<<>>), Fn("r4")>>}

\* "a", "g/a"
PromptNames == {<<"a">>, <<"g", "/", "a">>}
\* no schema, a Zod object as schema, and a raw shape as the overloads
\* declare it
PromptRests == {<<Fn("p1")>>,
                <<ZodSchema(<<[name |-> "x", optional |-> TRUE]>>), Fn("p2")>>,
                <<Obj(<<[name |-> "x", optional |-> FALSE]>>), Fn("p3")>>}

ServeIds == {"s1"}

Registrations(max) ==
    \/ \E name \in ToolNames, rest \in ToolRests :
          /\ RoomFor(max, registeredTools, toolRecord(name, rest).name)
          /\ RegisterTool(name, rest)
    \/ \E name \in ResourceNames, rest \in ResourceRests :
          /\ RoomFor(max, registeredResources, name)
          /\ RegisterResource(name, rest)
    \/ \E name \in PromptNames, rest \in PromptRests :
          /\ RoomFor(max, registeredPrompts, promptRecord(name, rest).name)
          /\ RegisterPrompt(name, rest)

Connections ==
    \/ \E options \in StartOptions : Start(options)
    \/ \E id \in ServeIds, key \in Keys, query \in Queries : SseRequest(id, key, query)
    \/ \E id \in ServeIds : ConnectResolves(id)
    \/ \E id \in ServeIds : ReqClose(id)

Listings ==
    \/ \E id \in ServeIds : ListTools(id)
    \/ \E id \in ServeIds : ListResources(id)
    \/ \E id \in ServeIds : ListPrompts(id)

ListNext == Registrations(MaxRegs) \/ Connections \/ Listings

SpecList == ServerInit /\ [][ListNext]_vars

----------------------------------------------------------------------------
(* Properties of the listing handlers (checked under SpecList).            *)

ListOps == {"tools/list", "resources/list", "prompts/list"}

RegistryOf(op) ==
    IF op = "tools/list" THEN registeredTools
    ELSE IF op = "resources/list" THEN registeredResources
    ELSE registeredPrompts

\* the permission rule as the specification states it
Allowed(c, s) ==
    \/ ~enableUrlGroups
    \/ s = <<>>
    \/ c = <<>>
    \/ IsPrefixOf(s, c)

\* the keys of a registry whose group is allowed for path, in the
\* registry's order
AllowedKeys(registry, path) ==
    MapKeys(SelectSeq(registry, LAMBDA e : Allowed(e.value.group, path)))

\* the names a listing returned
ListedNames(outcome) == [i \in 1..Len(outcome.list) |-> outcome.list[i].name]

\* a listing request of a registered session has just been handled
ListedForRegistered ==
    /\ resp.op \in ListOps
    /\ MapHas(clientContexts, resp.sessionId)

\* C3: each listing operation for a registered session returns exactly the
\* records of that registry whose group is allowed for the session's
\* permission path, each once, in the registry's insertion order.
ListingIsFilteredRegistry ==
    ListedForRegistered =>
        /\ resp.outcome.kind = "result"
        /\ ListedNames(resp.outcome) =
              AllowedKeys(RegistryOf(resp.op),
                          getClientContext(clientContexts, resp.sessionId).urlGroups)

\* C4: with enforcement disabled every registered session, whatever its
\* connection path, lists every registered tool, resource and prompt.
UnenforcedListsEverything ==
    (ListedForRegistered /\ ~enableUrlGroups) =>
        /\ resp.outcome.kind = "result"
        /\ ListedNames(resp.outcome) = MapKeys(RegistryOf(resp.op))

\* C5: after start({transportType: 'sse', enableUrlGroups: true}) a tool
\* registered as "g/h/a" is listed only for sessions whose path is empty or
\* an index-wise prefix of [g, h].
StartOptionEnforcesGroups ==
    \A i \in 1..Len(registeredTools) :
        LET key == registeredTools[i].key IN
        (/\ started
         /\ "enableUrlGroups" \in DOMAIN startOptions
         /\ startOptions.enableUrlGroups
         /\ key = toolRecord(<<"g", "/", "h", "/", "a">>, <<Fn("t1")>>).name
         /\ resp.op = "tools/list"
         /\ MapHas(clientContexts, resp.sessionId)
         /\ resp.outcome.kind = "result"
         /\ \E j \in 1..Len(resp.outcome.list) : resp.outcome.list[j].name = key)
        => LET path == getClientContext(clientContexts, resp.sessionId).urlGroups IN
           path = <<>> \/ IsPrefixOf(path, << <<"g">>, <<"h">> >>)

\* a visible record of the registry that list-resources cannot render
HasUnlistableVisible(path) ==
    \E i \in 1..Len(registeredResources) :
        /\ Allowed(registeredResources[i].value.group, path)
        /\ ~listableResource(registeredResources[i].value)

\* what the listing handlers do return: the allowed records in insertion
\* order, except that list-resources fails as a whole when one allowed
\* resource is a fixed-uri record with an empty uri
ListingIsFilteredUnlessUnlistable ==
    ListedForRegistered =>
        LET path == getClientContext(clientContexts, resp.sessionId).urlGroups IN
        IF resp.op = "resources/list" /\ HasUnlistableVisible(path)
        THEN resp.outcome = Throw(Error("Invalid resource registration found"))
        ELSE /\ resp.outcome.kind = "result"
             /\ ListedNames(resp.outcome) = AllowedKeys(RegistryOf(resp.op), path)

----------------------------------------------------------------------------
(* The invocation handlers: call-tool, read-resource and get-prompt.  A    *)
(* reply is the handler's outcome with the callbacks it invoked.           *)

Reply(outcome, invoked) == [outcome |-> outcome, invoked |-> invoked]

\* the arguments object of a request: the fields it supplies a valid value
\* for (request.params.arguments may also be undefined)
Args(supplied) == [type |-> "object", supplied |-> supplied]

IsFn(v) == v # Null /\ v.type = "function"

\* schema.safeParseAsync(arguments) of a z.object schema: anything but an
\* object fails; each field's validator is then asked for its value, which
\* throws when the field holds no validator; unknown fields are stripped
safeParseAsync(schema, arguments) ==
    LET fields == schema.shape.fields
        names == {fields[i].name : i \in 1..Len(fields)}
        required == {fields[i].name : i \in {j \in 1..Len(fields) : ~fields[j].optional}}
    IN  IF arguments = Null THEN [threw |-> FALSE, success |-> FALSE]
        ELSE IF Len(fields) > 0 /\ ~schema.shape.validators THEN [threw |-> TRUE]
        ELSE IF required \subseteq arguments.supplied
        THEN [threw |-> FALSE, success |-> TRUE, data |-> arguments.supplied \cap names]
        ELSE [threw |-> FALSE, success |-> FALSE]

\* what a throwing callback throws
CallbackError == Error("callback failed")

\* the in-band failure result of a tool call: error.message as text
ErrorResult(text) == [kind |-> "result", isError |-> TRUE, text |-> text]

\* a handler that lets the exceptions of every callback escape
CallbackSettlesRethrows(cb, threw, isTool) ==
    IF ~IsFn(cb) THEN Throw(TypeError)
    ELSE IF threw THEN Throw(CallbackError)
    ELSE [kind |-> "result", isError |-> FALSE, from |-> cb.v]

\* a handler that turns the exceptions of every callback into a result
CallbackSettlesInBand(cb, threw, isTool) ==
    IF ~IsFn(cb) THEN ErrorResult("cb is not a function")
    ELSE IF threw THEN ErrorResult(CallbackError.message)
    ELSE [kind |-> "result", isError |-> FALSE, from |-> cb.v]

\* what a callback does once invoked is the user's code: it returns or it
\* throws; the tool handler catches, the other two log and rethrow
CallbackSettles(cb, threw, isTool) ==
    IF ~IsFn(cb) THEN
        IF isTool THEN ErrorResult("cb is not a function")
        ELSE Throw(TypeError)
    ELSE IF threw THEN
        IF isTool THEN ErrorResult(CallbackError.message)
        ELSE Throw(CallbackError)
    ELSE [kind |-> "result", isError |-> FALSE, from |-> cb.v]

\* a CallTool handler that hands the callback the validated arguments alone
callToolNoQuery(sessionId, params, cbThrows) ==
    LET tool == MapGet(registeredTools, params.name) IN
    IF tool = Null
    THEN Reply(Throw(McpError("InvalidParams", <<"Tool not found", params.name>>)), <<>>)
    ELSE IF tool.inputSchema # Null
    THEN LET parseResult == safeParseAsync(tool.inputSchema, params.arguments) IN
         IF parseResult.threw THEN Reply(Throw(TypeError), <<>>)
         ELSE IF ~parseResult.success
         THEN Reply(Throw(McpError("InvalidParams",
                                   <<"Invalid arguments for tool", params.name>>)), <<>>)
         ELSE Reply(CallbackSettles(tool.callback, cbThrows, TRUE),
                    <<[callback |-> tool.callback,
                       args |-> [data |-> parseResult.data, reqQuery |-> EmptyQuery]]>>)
    ELSE Reply(CallbackSettles(tool.callback, cbThrows, TRUE),
               <<[callback |-> tool.callback, args |-> Null]>>)

\* a CallTool handler that reports an unknown tool as an internal error
callToolUnknownIsInternal(sessionId, params, cbThrows) ==
    LET tool == MapGet(registeredTools, params.name) IN
    IF tool = Null
    THEN Reply(Throw(McpError("InternalError", <<"Tool not found", params.name>>)), <<>>)
    ELSE Reply(CallbackSettles(tool.callback, cbThrows, TRUE),
               <<[callback |-> tool.callback, args |-> Null]>>)

\* the CallTool handler
callTool(sessionId, params, cbThrows) ==
    LET tool == MapGet(registeredTools, params.name) IN
    IF tool = Null
    THEN Reply(Throw(McpError("InvalidParams", <<"Tool not found", params.name>>)), <<>>)
    ELSE IF tool.inputSchema # Null
    THEN LET parseResult == safeParseAsync(tool.inputSchema, params.arguments)
             clientContext == getClientContext(clientContexts, sessionId)
         IN  IF parseResult.threw THEN Reply(Throw(TypeError), <<>>)
             ELSE IF ~parseResult.success
             THEN Reply(Throw(McpError("InvalidParams",
                                       <<"Invalid arguments for tool", params.name>>)), <<>>)
             ELSE IF clientContext = Null THEN Reply(Throw(TypeError), <<>>)
             ELSE Reply(CallbackSettles(tool.callback, cbThrows, TRUE),
                        <<[callback |-> tool.callback,
                           args |-> [data |-> parseResult.data,
                                     reqQuery |-> clientContext.reqQuery]]>>)
    ELSE Reply(CallbackSettles(tool.callback, cbThrows, TRUE),
               <<[callback |-> tool.callback, args |-> Null]>>)

\* new URL(uri) accepts a string that starts with a scheme and ":"
IsUrl(uri) ==
    LET i == IndexOfFrom(uri, ":", 1) IN
    i > 1 /\ \A j \in 1..(i - 1) : uri[j] \notin NonWordChars

\* the longest run of characters other than "/" that starts at i
RECURSIVE SegmentRunLen(_, _)
SegmentRunLen(uri, i) ==
    IF i > Len(uri) \/ uri[i] = "/" THEN 0
    ELSE 1 + SegmentRunLen(uri, i + 1)

\* {name} starts at i: a brace, a run of \w characters, a brace
IsPlaceholderAt(template, i) ==
    LET j == WordRunEnd(template, i + 1) IN
    /\ i <= Len(template)
    /\ template[i] = "{"
    /\ j > i + 1
    /\ j <= Len(template)
    /\ template[j] = "}"

Digits == {"0", "1", "2", "3", "4", "5", "6", "7", "8", "9"}

DigitValue(d) == CHOOSE n \in 0..9 : <<"0", "1", "2", "3", "4", "5", "6", "7", "8", "9">>[n + 1] = d

RECURSIVE DigitRunEnd(_, _)
DigitRunEnd(str, i) ==
    IF i > Len(str) \/ str[i] \notin Digits THEN i
    ELSE DigitRunEnd(str, i + 1)

RECURSIVE NumberOf(_)
NumberOf(digits) ==
    IF digits = <<>> THEN 0
    ELSE 10 * NumberOf(SubSeq(digits, 1, Len(digits) - 1)) + DigitValue(digits[Len(digits)])

\* the escaping of extractVariablesFromUri leaves braces as they are and
\* only {name} becomes a group: what is left of the form {m,} or {m,n} is,
\* in the pattern handed to RegExp, a quantifier of the term before it
QuantifierAt(template, i) ==
    LET j == DigitRunEnd(template, i + 1)
        k == DigitRunEnd(template, j + 1)
    IN  IF /\ i <= Len(template)
           /\ template[i] = "{"
           /\ j > i + 1
           /\ j <= Len(template)
           /\ template[j] = ","
           /\ k <= Len(template)
           /\ template[k] = "}"
        THEN [is      |-> TRUE,
              min     |-> NumberOf(SubSeq(template, i + 1, j - 1)),
              bounded |-> k > j + 1,
              max     |-> NumberOf(SubSeq(template, j + 1, k - 1)),
              next    |-> k + 1]
        ELSE [is |-> FALSE]

\* new RegExp accepts the pattern: a quantifier follows a character or a
\* group, and its numbers are in order
RECURSIVE PatternCompiles(_, _, _)
PatternCompiles(template, i, quantifiable) ==
    IF i > Len(template) THEN TRUE
    ELSE LET q == QuantifierAt(template, i) IN
         IF q.is
         THEN /\ quantifiable
              /\ (q.bounded => q.min <= q.max)
              /\ PatternCompiles(template, q.next, FALSE)
         ELSE IF IsPlaceholderAt(template, i)
         THEN PatternCompiles(template, WordRunEnd(template, i + 1) + 1, TRUE)
         ELSE PatternCompiles(template, i + 1, TRUE)

\* the term of the pattern that starts at ti: a group ([^/]+) for {name},
\* otherwise one literal character, with the quantifier that follows it
TermAt(template, ti, uri) ==
    LET group == IsPlaceholderAt(template, ti)
        end == IF group THEN WordRunEnd(template, ti + 1) + 1 ELSE ti + 1
        q == QuantifierAt(template, end)
    IN  [group |-> group,
         char  |-> template[ti],
         min   |-> IF q.is THEN q.min ELSE 1,
         max   |-> IF ~q.is THEN 1 ELSE IF q.bounded THEN q.max ELSE Len(uri) + 1,
         next  |-> IF q.is THEN q.next ELSE end]

NoMatch == [matched |-> FALSE]

\* the match of the anchored pattern extractVariablesFromUri builds, as
\* RegExp finds it: a term repeats as often as it can, a group takes the
\* longest run without "/" it can, and both give back when the rest of the
\* pattern does not match; a group's capture is that of its last repetition
RECURSIVE matchFrom(_, _, _, _)
RECURSIVE matchRepeat(_, _, _, _, _, _)
RECURSIVE matchGroup(_, _, _, _, _, _)
matchFrom(template, ti, uri, ui) ==
    IF ti > Len(template)
    THEN IF ui > Len(uri) THEN [matched |-> TRUE, groups |-> <<>>]
         ELSE NoMatch
    ELSE matchRepeat(template, TermAt(template, ti, uri), uri, ui, 0, Null)

matchRepeat(template, term, uri, ui, count, captured) ==
    LET more ==
            IF count >= term.max THEN NoMatch
            ELSE IF term.group
            THEN matchGroup(template, term, uri, ui, count, SegmentRunLen(uri, ui))
            ELSE IF ui <= Len(uri) /\ uri[ui] = term.char
            THEN matchRepeat(template, term, uri, ui + 1, count + 1, captured)
            ELSE NoMatch
    IN  IF more.matched THEN more
        ELSE IF count < term.min THEN NoMatch
        ELSE LET rest == matchFrom(template, term.next, uri, ui) IN
             IF ~rest.matched THEN NoMatch
             ELSE [matched |-> TRUE,
                   groups |-> (IF term.group THEN <<captured>> ELSE <<>>) \o rest.groups]

matchGroup(template, term, uri, ui, count, len) ==
    IF len < 1 THEN NoMatch
    ELSE LET found == matchRepeat(template, term, uri, ui + len, count + 1,
                                  SubSeq(uri, ui, ui + len - 1))
         IN  IF found.matched THEN found
             ELSE matchGroup(template, term, uri, ui, count, len - 1)

\* the loop that fills the variables object: a repeated name keeps its
\* place and takes the later value
RECURSIVE assignVariables(_, _, _, _)
assignVariables(variables, variableNames, groups, i) ==
    IF i > Len(variableNames) THEN variables
    ELSE assignVariables(MapSet(variables, variableNames[i], groups[i]),
                         variableNames, groups, i + 1)

SyntaxError == [kind |-> "SyntaxError"]

\* Null, the variables object, or the SyntaxError of new RegExp
extractVariablesFromUri(template, uri) ==
    LET variableNames == extractVariableNames(template)
        match == matchFrom(template, 1, uri, 1)
    IN  IF ~PatternCompiles(template, 1, FALSE) THEN Throw(SyntaxError)
        ELSE IF ~match.matched THEN Null
        ELSE [variables |-> assignVariables(<<>>, variableNames, match.groups, 1)]

\* a ReadResource handler that hands a template record's callback whatever
\* the matcher returned
readResourceNoMatchTest(sessionId, params, cbThrows) ==
    LET resourceReg == MapGet(registeredResources, params.name)
        clientContext == getClientContext(clientContexts, sessionId)
    IN  IF resourceReg = Null
        THEN Reply(Throw(McpError("InvalidParams", <<"Resource not found", params.name>>)),
                   <<>>)
        ELSE IF clientContext = Null THEN Reply(Throw(TypeError), <<>>)
        ELSE IF ~hasPermission(resourceReg.group, clientContext.urlGroups)
        THEN Reply(Throw(McpError("InvalidParams",
                                  <<"Access denied to resource", params.name>>)), <<>>)
        ELSE IF ~IsUrl(params.uri) THEN Reply(Throw(TypeError), <<>>)
        ELSE Reply(CallbackSettles(resourceReg.readCallback, cbThrows, FALSE),
                   <<[callback |-> resourceReg.readCallback,
                      args |-> [uri |-> params.uri]]>>)

\* the ReadResource handler; the record is looked up under params.name
readResource(sessionId, params, cbThrows) ==
    LET resourceReg == MapGet(registeredResources, params.name)
        clientContext == getClientContext(clientContexts, sessionId)
    IN  IF resourceReg = Null
        THEN Reply(Throw(McpError("InvalidParams", <<"Resource not found", params.name>>)),
                   <<>>)
        ELSE IF clientContext = Null THEN Reply(Throw(TypeError), <<>>)
        ELSE IF ~hasPermission(resourceReg.group, clientContext.urlGroups)
        THEN Reply(Throw(McpError("InvalidParams",
                                  <<"Access denied to resource", params.name>>)), <<>>)
        ELSE IF resourceReg.type = "uri"
        THEN IF ~IsUrl(params.uri) THEN Reply(Throw(TypeError), <<>>)
             ELSE Reply(CallbackSettles(resourceReg.readCallback, cbThrows, FALSE),
                        <<[callback |-> resourceReg.readCallback,
                           args |-> [uri |-> params.uri]]>>)
        ELSE IF resourceReg.type = "template" /\ resourceReg.template # Null
        THEN LET variables == extractVariablesFromUri(resourceReg.template.uriTemplate,
                                                      params.uri)
             IN  IF ~IsUrl(params.uri) THEN Reply(Throw(TypeError), <<>>)
                 ELSE IF variables = Throw(SyntaxError) THEN Reply(variables, <<>>)
                 ELSE IF variables = Null
                 THEN Reply(Throw(McpError("InvalidParams",
                                           <<"URI does not match template for resource",
                                             params.name>>)), <<>>)
                 ELSE Reply(CallbackSettles(resourceReg.readCallback, cbThrows, FALSE),
                            <<[callback |-> resourceReg.readCallback,
                               args |-> [uri |-> params.uri,
                                         variables |-> variables.variables]]>>)
        ELSE Reply(Throw(McpError("InternalError",
                                  <<"Invalid resource registration state", params.name>>)),
                   <<>>)

\* the GetPrompt handler
getPrompt(sessionId, params, cbThrows) ==
    LET promptReg == MapGet(registeredPrompts, params.name)
        clientContext == getClientContext(clientContexts, sessionId)
    IN  IF promptReg = Null
        THEN Reply(Throw(McpError("InvalidParams", <<"Prompt not found", params.name>>)),
                   <<>>)
        ELSE IF clientContext = Null THEN Reply(Throw(TypeError), <<>>)
        ELSE IF ~hasPermission(promptReg.group, clientContext.urlGroups)
        THEN Reply(Throw(McpError("InvalidParams",
                                  <<"Access denied to prompt", params.name>>)), <<>>)
        ELSE IF promptReg.argsSchema # Null
        THEN LET parseResult == safeParseAsync(promptReg.argsSchema, params.arguments) IN
             IF parseResult.threw THEN Reply(Throw(TypeError), <<>>)
             ELSE IF ~parseResult.success
             THEN Reply(Throw(McpError("InvalidParams",
                                       <<"Invalid arguments for prompt", params.name>>)),
                        <<>>)
             ELSE Reply(CallbackSettles(promptReg.callback, cbThrows, FALSE),
                        <<[callback |-> promptReg.callback,
                           args |-> [data |-> parseResult.data]]>>)
        ELSE Reply(CallbackSettles(promptReg.callback, cbThrows, FALSE),
                   <<[callback |-> promptReg.callback, args |-> Null]>>)

\* what resp holds of a handled invocation: what was asked and the reply
Handled(op, id, params, cbThrows, reply) ==
    [op |-> op, sessionId |-> id, params |-> params, cbThrows |-> cbThrows,
     outcome |-> reply.outcome, invoked |-> reply.invoked]

CallTool(id, params, cbThrows) ==
    /\ Serving(id)
    /\ resp' = Handled("tools/call", id, params, cbThrows, callTool(id, params, cbThrows))
    /\ UNCHANGED <<enableUrlGroups, clientContexts, permVars, smVars, startVars, conn, regVars>>

\* a ReadResource handler whose failure closes the connection: the timer
\* is cancelled and the session removed
ReadResourceClosesOnError(id, params, cbThrows) ==
    LET reply == readResource(id, params, cbThrows) IN
    /\ Serving(id)
    /\ resp' = Handled("resources/read", id, params, cbThrows, reply)
    /\ IF reply.outcome.kind = "throw"
       THEN /\ clientContexts' = removeSession(clientContexts, id)
            /\ conn' = [conn EXCEPT ![id].closed = TRUE, ![id].heartbeat = FALSE]
       ELSE UNCHANGED <<clientContexts, conn>>
    /\ UNCHANGED <<enableUrlGroups, permVars, smVars, startVars, regVars>>

ReadResource(id, params, cbThrows) ==
    /\ Serving(id)
    /\ resp' = Handled("resources/read", id, params, cbThrows, readResource(id, params, cbThrows))
    /\ UNCHANGED <<enableUrlGroups, clientContexts, permVars, smVars, startVars, conn, regVars>>

GetPrompt(id, params, cbThrows) ==
    /\ Serving(id)
    /\ resp' = Handled("prompts/get", id, params, cbThrows, getPrompt(id, params, cbThrows))
    /\ UNCHANGED <<enableUrlGroups, clientContexts, permVars, smVars, startVars, conn, regVars>>

----------------------------------------------------------------------------
(* The server with its registrations, one connection and the invocation    *)
(* requests.                                                               *)

\* the argument objects a request carries, besides none at all
RequestArguments == {Null, Args({}), Args({"x"})}

\* "a", "g_h/a" (the key "g/h/a" is stored under) and "g/h/a" itself
ToolCallParams ==
    [name : {<<"a">>, <<"g", "_", "h", "/", "a">>, <<"g", "/", "h", "/", "a">>},
     arguments : RequestArguments]

\* the uris "u:x", "u:x/y", "u:" and "x"
RequestUris == {<<"u", ":", "x">>, <<"u", ":", "x", "/", "y">>, <<"u", ":">>, <<"x">>}

\* "a", "g/a" and a name never registered
ResourceReadParams == [name : ResourceNames \cup {<<"b">>}, uri : RequestUris]

\* "a", "g_a" (the key "g/a" is stored under) and "g/a" itself
PromptGetParams ==
    [name : {<<"a">>, <<"g", "_", "a">>, <<"g", "/", "a">>},
     arguments : RequestArguments]

Invocations ==
    \/ \E id \in ServeIds, params \in ToolCallParams, cbThrows \in BOOLEAN :
          CallTool(id, params, cbThrows)
    \/ \E id \in ServeIds, params \in ResourceReadParams, cbThrows \in BOOLEAN :
          ReadResource(id, params, cbThrows)
    \/ \E id \in ServeIds, params \in PromptGetParams, cbThrows \in BOOLEAN :
          GetPrompt(id, params, cbThrows)

\* the connection paths "", "g" and "o"
CallKeys == {<<>>, <<"g">>, <<"o">>}

CallConnections ==
    \/ Start([transportType |-> "sse"])
    \/ \E id \in ServeIds, key \in CallKeys, query \in Queries : SseRequest(id, key, query)
    \/ \E id \in ServeIds : ConnectResolves(id)
    \/ \E id \in ServeIds : ReqClose(id)

CallNext == Registrations(MaxCallRegs) \/ CallConnections \/ Invocations

SpecCall == ServerInit /\ [][CallNext]_vars

----------------------------------------------------------------------------
(* Properties of the invocation handlers (checked under SpecCall).         *)

InvokeOps == {"tools/call", "resources/read", "prompts/get"}

\* the record an invocation looks up, Null when there is none
LookedUp ==
    IF resp.op = "tools/call" THEN MapGet(registeredTools, resp.params.name)
    ELSE IF resp.op = "resources/read" THEN MapGet(registeredResources, resp.params.name)
    ELSE MapGet(registeredPrompts, resp.params.name)

\* an invocation of a registered session has just been handled, enforcement
\* is enabled and the session's path is not allowed for the record's group
DeniedInvocation ==
    /\ enableUrlGroups
    /\ resp.op \in InvokeOps
    /\ MapHas(clientContexts, resp.sessionId)
    /\ LookedUp # Null
    /\ ~Allowed(LookedUp.group,
                getClientContext(clientContexts, resp.sessionId).urlGroups)

IsAccessDenied(outcome) ==
    /\ outcome.kind = "throw"
    /\ outcome.error.kind = "McpError"
    /\ outcome.error.code = "InvalidParams"
    /\ outcome.error.message[1] \in {"Access denied to tool",
                                     "Access denied to resource",
                                     "Access denied to prompt"}

\* C1: with enforcement enabled, an invocation (call-tool, read-resource,
\* get-prompt) by a session whose path is not allowed for the record's group
\* fails with an InvalidParams access-denied error and the record's callback
\* is never invoked.
DeniedInvocationNeverRuns ==
    DeniedInvocation =>
        /\ IsAccessDenied(resp.outcome)
        /\ resp.invoked = <<>>

\* what holds of the code: read-resource and get-prompt deny such a request
\* before anything else, call-tool makes no permission check
DeniedReadOrGetNeverRuns ==
    (DeniedInvocation /\ resp.op # "tools/call") =>
        /\ IsAccessDenied(resp.outcome)
        /\ resp.invoked = <<>>

\* C12: when a tool callback that was invoked throws, the call-tool request
\* does not fail: it returns a result with isError true and the exception's
\* message as text, and the SessionRegistry is left as it was.
ThrowingToolCallbackIsInBand ==
    [][(resp'.op = "tools/call" /\ resp'.invoked # <<>> /\ resp'.cbThrows) =>
          /\ resp'.outcome = ErrorResult(CallbackError.message)
          /\ clientContexts' = clientContexts
          /\ MapHas(clientContexts, resp'.sessionId) =>
                MapHas(clientContexts', resp'.sessionId)]_vars

\* a registered session's tool callback threw
ToolCallbackThrew ==
    /\ resp.op = "tools/call"
    /\ resp.invoked # <<>>
    /\ resp.cbThrows
    /\ resp.outcome.kind = "result"
    /\ MapHas(clientContexts, resp.sessionId)

\* C13: when a resource or prompt callback that was invoked throws, the
\* request fails with that very exception, never with a result, and the
\* SessionRegistry is left as it was.
ThrowingReadOrGetCallbackIsRethrown ==
    [][(resp'.op \in {"resources/read", "prompts/get"} /\ resp'.invoked # <<>>
          /\ resp'.cbThrows) =>
          /\ resp'.outcome = Throw(CallbackError)
          /\ clientContexts' = clientContexts
          /\ MapHas(clientContexts', resp'.sessionId)]_vars

\* a resource callback threw and so did a prompt callback
ReadCallbackThrew ==
    /\ resp.op = "resources/read"
    /\ resp.invoked # <<>>
    /\ resp.cbThrows
    /\ resp.outcome.kind = "throw"

GetCallbackThrew ==
    /\ resp.op = "prompts/get"
    /\ resp.invoked # <<>>
    /\ resp.cbThrows
    /\ resp.outcome.kind = "throw"

\* the text of the error an unknown name is answered with
NotFoundText(op) ==
    IF op = "tools/call" THEN "Tool not found"
    ELSE IF op = "resources/read" THEN "Resource not found"
    ELSE "Prompt not found"

\* C14: an invocation naming a capability that is not a key of its registry
\* fails with an InvalidParams error that names the requested identifier,
\* and no callback is invoked.
UnknownNameIsInvalidParams ==
    (resp.op \in InvokeOps /\ LookedUp = Null) =>
        /\ resp.outcome = Throw(McpError("InvalidParams",
                                         <<NotFoundText(resp.op), resp.params.name>>))
        /\ resp.invoked = <<>>

\* a tool was called under a name that is no key while a tool is registered
UnknownToolCalled ==
    /\ resp.op = "tools/call"
    /\ LookedUp = Null
    /\ registeredTools # <<>>
    /\ MapHas(clientContexts, resp.sessionId)

\* the argument schema a tool() or prompt() call declares: the argument
\* before the callback, after the description if there is one
DeclaredSchema(rest) ==
    LET args == IF Len(rest) > 0 /\ rest[1].type = "string" THEN Tail(rest) ELSE rest IN
    IF Len(args) > 1 THEN args[1] ELSE Null

\* the arguments do not satisfy the declared fields
FailsValidation(fields, arguments) ==
    \/ arguments = Null
    \/ \E i \in 1..Len(fields) :
          ~fields[i].optional /\ fields[i].name \notin arguments.supplied

InvalidArguments(kind, name) ==
    Throw(McpError("InvalidParams", <<kind, name>>))

\* the last request named the record this registration stored and its
\* arguments fail the schema the registration declared
FailedDeclaredSchema(op, registry, record, rest) ==
    /\ resp.op = op
    /\ resp.params.name = record.name
    /\ MapGet(registry, record.name) = record
    /\ DeclaredSchema(rest) # Null
    /\ FailsValidation(DeclaredSchema(rest).fields, resp.params.arguments)

\* C15, call-tool: arguments that fail the schema a tool declares cause an
\* InvalidParams 'invalid arguments' error and the callback is not invoked.
ToolInvalidArgumentsAreRejected ==
    \A name \in ToolNames, rest \in ToolRests :
        FailedDeclaredSchema("tools/call", registeredTools, toolRecord(name, rest), rest) =>
            /\ resp.outcome = InvalidArguments("Invalid arguments for tool", resp.params.name)
            /\ resp.invoked = <<>>

\* C15: for call-tool and get-prompt on a record registered with an argument
\* schema, arguments that fail validation cause an InvalidParams 'invalid
\* arguments' error and the callback is invoked zero times.
InvalidArgumentsAreRejected ==
    /\ ToolInvalidArgumentsAreRejected
    /\ \A name \in PromptNames, rest \in PromptRests :
          FailedDeclaredSchema("prompts/get", registeredPrompts,
                               promptRecord(name, rest), rest) =>
              /\ resp.outcome = InvalidArguments("Invalid arguments for prompt",
                                                 resp.params.name)
              /\ resp.invoked = <<>>

\* the last request was a call-tool that passed lookup, permission (its
\* session is registered and allowed for the tool's group) and validation
ToolCallPassedChecks ==
    /\ resp.op = "tools/call"
    /\ LookedUp # Null
    /\ MapHas(clientContexts, resp.sessionId)
    /\ Allowed(LookedUp.group, getClientContext(clientContexts, resp.sessionId).urlGroups)
    /\ LookedUp.inputSchema # Null =>
          ~FailsValidation(LookedUp.inputSchema.shape.fields, resp.params.arguments)

\* the validated arguments: the supplied fields the schema knows, or what
\* the request supplied when there is no schema
ValidatedArguments ==
    IF LookedUp.inputSchema # Null
    THEN {f \in resp.params.arguments.supplied :
            \E i \in 1..Len(LookedUp.inputSchema.shape.fields) :
                LookedUp.inputSchema.shape.fields[i].name = f}
    ELSE IF resp.params.arguments = Null THEN {}
    ELSE resp.params.arguments.supplied

\* what the callback is handed when it gets the validated arguments with the
\* session's opening-request query
AugmentedArguments ==
    [data |-> ValidatedArguments,
     reqQuery |-> getReqQuery(clientContexts, resp.sessionId)]

\* C16 as stated: every call-tool request that passes lookup, permission and
\* validation invokes the callback exactly once, with the validated
\* arguments augmented with the session's opening-request query snapshot.
ToolCallbackGetsArgumentsWithQuery ==
    ToolCallPassedChecks =>
        /\ Len(resp.invoked) = 1
        /\ resp.invoked[1].callback = LookedUp.callback
        /\ resp.invoked[1].args = AugmentedArguments

\* C16, amended: every such request invokes the callback exactly once; a
\* tool registered with a schema is handed the validated arguments augmented
\* with the query snapshot, a tool registered without a schema is handed no
\* arguments at all and so no snapshot.
ToolCallbackGetsQueryWhenSchema ==
    ToolCallPassedChecks =>
        /\ Len(resp.invoked) = 1
        /\ resp.invoked[1].callback = LookedUp.callback
        /\ resp.invoked[1].args =
              IF LookedUp.inputSchema # Null THEN AugmentedArguments ELSE Null

\* a tool with a schema was called with valid arguments by a session that
\* connected on a path of its own
SchemaToolCalledWithValidArguments ==
    /\ ToolCallPassedChecks
    /\ LookedUp.inputSchema # Null
    /\ resp.params.arguments = Args({"x"})
    /\ getClientContext(clientContexts, resp.sessionId).urlGroups # <<>>

\* C17: a listing request whose session identifier is not in the
\* SessionRegistry is answered with an empty list and does not fail,
\* whatever the registries hold.
UnregisteredListingIsEmpty ==
    (resp.op \in ListOps /\ ~MapHas(clientContexts, resp.sessionId)) =>
        resp.outcome = [kind |-> "result", list |-> <<>>]

\* what holds of the code: such a request is answered with an empty list
\* only when the registry is empty; otherwise the filter reads the path of
\* a context that is not there
UnregisteredListingFailsUnlessEmpty ==
    (resp.op \in ListOps /\ ~MapHas(clientContexts, resp.sessionId)) =>
        resp.outcome = IF RegistryOf(resp.op) = <<>>
                       THEN [kind |-> "result", list |-> <<>>]
                       ELSE Throw(TypeError)

\* the key tool(name, ...) stores its record under
StoredToolKey(name) == toolRecord(name, <<>>).name

\* C18: the name under which a tool was registered resolves, when it is
\* invoked, to the record most recently registered under that name: the
\* request is not answered 'not found' and the callback called, if any, is
\* that record's.
RegisteredNameResolves ==
    \A name \in ToolNames :
        (/\ resp.op = "tools/call"
         /\ resp.params.name = name
         /\ MapHas(registeredTools, StoredToolKey(name))) =>
            /\ resp.outcome # Throw(McpError("InvalidParams", <<"Tool not found", name>>))
            /\ \A i \in 1..Len(resp.invoked) :
                  resp.invoked[i].callback =
                      MapGet(registeredTools, StoredToolKey(name)).callback

\* what holds of the code: a registered name resolves when it has no "/"
RegisteredPlainNameResolves ==
    \A name \in ToolNames :
        (/\ resp.op = "tools/call"
         /\ resp.params.name = name
         /\ IndexOfFrom(name, "/", 1) = 0
         /\ MapHas(registeredTools, StoredToolKey(name))) =>
            /\ resp.outcome # Throw(McpError("InvalidParams", <<"Tool not found", name>>))
            /\ \A i \in 1..Len(resp.invoked) :
                  resp.invoked[i].callback =
                      MapGet(registeredTools, StoredToolKey(name)).callback

----------------------------------------------------------------------------
(* Properties of the stored records (checked under SpecList).              *)

\* the segments joined with "/"
RECURSIVE JoinSegments(_)
JoinSegments(segments) ==
    IF Len(segments) = 0 THEN <<>>
    ELSE IF Len(segments) = 1 THEN segments[1]
    ELSE segments[1] \o <<"/">> \o JoinSegments(Tail(segments))

HasSeparator(str) == \E i \in 1..Len(str) : str[i] = "/"

\* group is all but the last "/"-separated segment of name: name is the
\* group's segments and a last segment, joined with "/"
IsGroupOf(group, name) ==
    /\ \A i \in 1..Len(group) : ~HasSeparator(group[i])
    /\ IF group = <<>> THEN ~HasSeparator(name)
       ELSE \E k \in 1..Len(name) :
               /\ name[k] = "/"
               /\ SubSeq(name, 1, k - 1) = JoinSegments(group)
               /\ ~HasSeparator(SubSeq(name, k + 1, Len(name)))

StoredPromptKey(name) == promptRecord(name, <<>>).name

\* holds of every stored record and the name it was registered under
ForEveryStoredRecord(P(_, _)) ==
    /\ \A name \in ToolNames :
          MapHas(registeredTools, StoredToolKey(name)) =>
              P(MapGet(registeredTools, StoredToolKey(name)), name)
    /\ \A name \in ResourceNames :
          MapHas(registeredResources, name) => P(MapGet(registeredResources, name), name)
    /\ \A name \in PromptNames :
          MapHas(registeredPrompts, StoredPromptKey(name)) =>
              P(MapGet(registeredPrompts, StoredPromptKey(name)), name)

RECURSIVE SeparatorCount(_)
SeparatorCount(str) ==
    IF Len(str) = 0 THEN 0
    ELSE (IF Head(str) = "/" THEN 1 ELSE 0) + SeparatorCount(Tail(str))

\* C20: for every tool or prompt registered under a name with any number of
\* "/" separators, the key it is stored, listed and invoked under contains
\* no "/" at all, while the stored group holds the name's leading segments
\* (on a server that derives groups).
StoredKeyHasNoSeparator ==
    /\ \A i \in 1..Len(registeredTools) : ~HasSeparator(registeredTools[i].key)
    /\ \A i \in 1..Len(registeredPrompts) : ~HasSeparator(registeredPrompts[i].key)
    /\ enableUrlGroups =>
          /\ \A name \in ToolNames :
                MapHas(registeredTools, StoredToolKey(name)) =>
                    IsGroupOf(MapGet(registeredTools, StoredToolKey(name)).group, name)
          /\ \A name \in PromptNames :
                MapHas(registeredPrompts, StoredPromptKey(name)) =>
                    IsGroupOf(MapGet(registeredPrompts, StoredPromptKey(name)).group, name)

\* what holds of the code: the key has one "/" less than the name, so it
\* has none only for names with at most one
StoredKeyLosesFirstSeparator ==
    /\ \A name \in ToolNames :
          MapHas(registeredTools, StoredToolKey(name)) =>
              SeparatorCount(StoredToolKey(name)) =
                  IF SeparatorCount(name) = 0 THEN 0 ELSE SeparatorCount(name) - 1
    /\ \A name \in PromptNames :
          MapHas(registeredPrompts, StoredPromptKey(name)) =>
              SeparatorCount(StoredPromptKey(name)) =
                  IF SeparatorCount(name) = 0 THEN 0 ELSE SeparatorCount(name) - 1

\* the arguments after the name have the shape resource() asks for: a
\* string or a template first, and a callback
SuppliesResourceShape(rest) ==
    /\ Len(rest) \in {2, 3}
    /\ rest[1].type \in {"string", "ResourceTemplate"}
    /\ rest[Len(rest)].type = "function"

\* a record with exactly one of uri and template set, agreeing with its
\* kind, and a callback
WellFormedResource(record) ==
    /\ record.type \in {"uri", "template"}
    /\ record.type = "uri" => (record.uri # Null /\ record.template = Null)
    /\ record.type = "template" => (record.template # Null /\ record.uri = Null)
    /\ IsFn(record.readCallback)

TemplateRead ==
    /\ resp.op = "resources/read"
    /\ MapHas(clientContexts, resp.sessionId)
    /\ LookedUp # Null
    /\ LookedUp.type = "template"
    /\ Allowed(LookedUp.group, getClientContext(clientContexts, resp.sessionId).urlGroups)

\* what the matcher gives for the request just handled
TemplateReadVariables ==
    extractVariablesFromUri(LookedUp.template.uriTemplate, resp.params.uri)

DoesNotMatchTemplate(name) ==
    Throw(McpError("InvalidParams", <<"URI does not match template for resource", name>>))

\* the request failed with 'does not match template' before the callback,
\* or the callback was invoked once with the extracted variables
TemplateReadMatchedOrRejected ==
    IF TemplateReadVariables = Null
    THEN /\ resp.outcome = DoesNotMatchTemplate(resp.params.name)
         /\ resp.invoked = <<>>
    ELSE resp.invoked = <<[callback |-> LookedUp.readCallback,
                           args |-> [uri |-> resp.params.uri,
                                     variables |-> TemplateReadVariables.variables]]>>

----------------------------------------------------------------------------
(* extractVariablesFromUri on its own: the template and the uri are drawn  *)
(* at the start and the call is one step.                                  *)

\* "a", "/", "{n}", "{m}" and "{1,2}"
TemplateParts == {<<"a">>, <<"/">>, <<"{", "n", "}">>, <<"{", "m", "}">>,
                  <<"{", "1", ",", "2", "}">>}

UriChars == {"a", "/"}

\* every concatenation of at most n elements of parts
RECURSIVE ConcatsUpTo(_, _)
ConcatsUpTo(parts, n) ==
    IF n = 0 THEN {<<>>}
    ELSE LET shorter == ConcatsUpTo(parts, n - 1) IN
         shorter \cup {s \o part : s \in shorter, part \in parts}

MatchTemplates == ConcatsUpTo(TemplateParts, MaxTemplateParts)
MatchUris == ConcatsUpTo({<<c>> : c \in UriChars}, MaxUriLen)

MatchInit ==
    /\ enableUrlGroups = FALSE
    /\ clientContexts = <<>>
    /\ NoPermCall
    /\ NoSmCalls
    /\ started = FALSE
    /\ startOptions = Null
    /\ conn = [id \in SessionIds |-> IdleConn]
    /\ registeredTools = <<>>
    /\ registeredResources = <<>>
    /\ registeredPrompts = <<>>
    /\ resp \in [op : {"extractVariablesFromUri"}, template : MatchTemplates,
                 uri : MatchUris, returned : {FALSE}]

MatchCall ==
    /\ ~resp.returned
    /\ resp' = [op       |-> "extractVariablesFromUri",
                template |-> resp.template,
                uri      |-> resp.uri,
                returned |-> TRUE,
                result   |-> extractVariablesFromUri(resp.template, resp.uri)]
    /\ UNCHANGED <<enableUrlGroups, clientContexts, permVars, smVars, startVars, conn,
                   regVars>>

MatchNext == MatchCall

SpecMatch == MatchInit /\ [][MatchNext]_vars

\* the ways uri, from ui on, is the template, from ti on, with each {name}
\* replaced by a non-empty string without "/" and every other character of
\* the template kept: each way is the sequence of the replacing strings
RECURSIVE Replacements(_, _, _, _)
Replacements(template, ti, uri, ui) ==
    IF ti > Len(template)
    THEN IF ui > Len(uri) THEN {<<>>} ELSE {}
    ELSE IF IsPlaceholderAt(template, ti)
    THEN UNION {{<<SubSeq(uri, ui, ui + len - 1)>> \o later :
                    later \in Replacements(template, WordRunEnd(template, ti + 1) + 1,
                                           uri, ui + len)} :
                len \in 1..SegmentRunLen(uri, ui)}
    ELSE IF ui <= Len(uri) /\ uri[ui] = template[ti]
    THEN Replacements(template, ti + 1, uri, ui + 1)
    ELSE {}

\* result is a variables object that gives every placeholder name the
\* string that replaced it (one of them when the name occurs twice)
IsVariablesOf(result, names, replacing) ==
    /\ "variables" \in DOMAIN result
    /\ \A e \in 1..Len(result.variables) :
          \E i \in 1..Len(names) : names[i] = result.variables[e].key
    /\ \A i \in 1..Len(names) :
          /\ MapHas(result.variables, names[i])
          /\ \E j \in 1..Len(names) :
                /\ names[j] = names[i]
                /\ MapGet(result.variables, names[i]) = replacing[j]

ExtractionIsWholeLiteralMatch ==
    LET ways == Replacements(resp.template, 1, resp.uri, 1) IN
    IF ways = {} THEN resp.result = Null
    ELSE \E replacing \in ways :
            IsVariablesOf(resp.result, extractVariableNames(resp.template), replacing)

\* C23: extractVariablesFromUri(template, uri) matches iff the whole uri is
\* the template with each {name} replaced by a non-empty string without "/"
\* and every other character matched literally; on a match it returns the
\* replacing strings keyed by placeholder name, otherwise null, and it
\* never raises.
ExtractMatchesWholeTemplateLiterally ==
    (resp.op = "extractVariablesFromUri" /\ resp.returned) =>
        ExtractionIsWholeLiteralMatch

\* no {m,} or {m,n} in the template
HasNoQuantifier(template) ==
    \A i \in 1..Len(template) : ~QuantifierAt(template, i).is

\* what holds of the code: so it is for a template whose braces are all
\* those of {name} placeholders
ExtractMatchesTemplateWithoutQuantifier ==
    (resp.op = "extractVariablesFromUri" /\ resp.returned
        /\ HasNoQuantifier(resp.template)) =>
        ExtractionIsWholeLiteralMatch

\* "a{1,2}" was matched against "aa"
QuantifierTemplateMatched ==
    /\ resp.op = "extractVariablesFromUri"
    /\ resp.returned
    /\ resp.template = <<"a", "{", "1", ",", "2", "}">>
    /\ resp.uri = <<"a", "a">>
    /\ resp.result = [variables |-> <<>>]

----------------------------------------------------------------------------
(* The server with its tools, one connection, and the messages, tool calls *)
(* and listings of that connection; the opening request and every message  *)
(* carry query parameters of their own.                                    *)

OpeningQueries == {"q1", "q2"}
MessageQueries == {"q1", "q2"}

QueryNext ==
    \/ \E name \in ToolNames, rest \in ToolRests :
          /\ RoomFor(MaxCallRegs, registeredTools, toolRecord(name, rest).name)
          /\ RegisterTool(name, rest)
    \/ Start([transportType |-> "sse"])
    \/ \E id \in ServeIds, key \in CallKeys, query \in OpeningQueries :
          SseRequest(id, key, query)
    \/ \E id \in ServeIds : ConnectResolves(id)
    \/ \E id \in ServeIds : ReqClose(id)
    \/ \E sessionId \in PostIds, query \in MessageQueries : PostMessage(sessionId, query)
    \/ \E id \in ServeIds, params \in ToolCallParams, cbThrows \in BOOLEAN :
          CallTool(id, params, cbThrows)
    \/ Listings

SpecQuery == ServerInit /\ [][QueryNext]_vars

\* C24: the request-query snapshot of a session is the opening request's
\* query and stays so: whatever messages (each with query parameters of its
\* own), tool calls and listings follow, getReqQuery(sessionId) returns it
\* for as long as the session is registered.
QuerySnapshotIsFixedAtOpen ==
    [][\A id \in ServeIds :
          /\ \A key \in CallKeys, query \in OpeningQueries :
                SseRequest(id, key, query) => getReqQuery(clientContexts', id) = query
          /\ (MapHas(clientContexts, id) /\ MapHas(clientContexts', id)) =>
                getReqQuery(clientContexts', id) = getReqQuery(clientContexts, id)]_vars

\* a message whose query parameters are not those of the opening request
\* was handed to a registered session's transport
MessageWithOtherQueryServed ==
    /\ resp.op = "message"
    /\ resp.outcome.handed = <<resp.sessionId>>
    /\ MapHas(clientContexts, resp.sessionId)
    /\ resp.query # getReqQuery(clientContexts, resp.sessionId)

----------------------------------------------------------------------------
(* The invocation handlers with the wait for the callback as a state of    *)
(* its own: the handler runs up to its await of the callback's promise,    *)
(* and goes on when the promise settles, which it may never do.            *)

handlerReply(op, id, params, cbThrows) ==
    IF op = "tools/call" THEN callTool(id, params, cbThrows)
    ELSE IF op = "resources/read" THEN readResource(id, params, cbThrows)
    ELSE getPrompt(id, params, cbThrows)

\* the handler passed its checks and called the callback, whose promise is
\* pending; the model keeps one pending callback a session
CallbackStarts(id, op, params) ==
    LET reply == handlerReply(op, id, params, FALSE) IN
    /\ Serving(id)
    /\ conn[id].pending = None
    /\ reply.invoked # <<>>
    /\ IsFn(reply.invoked[1].callback)
    /\ conn' = [conn EXCEPT ![id].pending =
                   [op |-> op, params |-> params, invoked |-> reply.invoked]]
    /\ resp' = None
    /\ UNCHANGED <<enableUrlGroups, clientContexts, permVars, smVars, startVars, regVars>>

\* the promise settled: the handler's await returns or throws
CallbackSettled(id, cbThrows) ==
    LET pending == conn[id].pending IN
    /\ pending # None
    /\ resp' = Handled(pending.op, id, pending.params, cbThrows,
                       Reply(CallbackSettles(pending.invoked[1].callback, cbThrows,
                                             pending.op = "tools/call"),
                             pending.invoked))
    /\ conn' = [conn EXCEPT ![id].pending = None]
    /\ UNCHANGED <<enableUrlGroups, clientContexts, permVars, smVars, startVars, regVars>>

PendingKeys == {<<"g">>}

\* one request of each kind, for the capability "a"
PendingRequests ==
    {[op |-> "tools/call", params |-> [name |-> <<"a">>, arguments |-> Null]],
     [op |-> "resources/read", params |-> [name |-> <<"a">>, uri |-> <<"u", ":", "x">>]],
     [op |-> "prompts/get", params |-> [name |-> <<"a">>, arguments |-> Null]]}

\* tool("a", cb), resource("a", "u:x", cb) and prompt("a", cb)
PendingRegistrations ==
    \/ RegisterTool(<<"a">>, <<Fn("t1")>>)
    \/ RegisterResource(<<"a">>, <<Str(<<"u", ":", "x">>), Fn("r1")>>)
    \/ RegisterPrompt(<<"a">>, <<Fn("p1")>>)

PendingNext ==
    \/ PendingRegistrations
    \/ Start([transportType |-> "sse"])
    \/ \E id \in SessionIds, key \in PendingKeys, query \in Queries :
          SseRequest(id, key, query)
    \/ \E id \in SessionIds : ConnectResolves(id)
    \/ \E id \in SessionIds : ReqClose(id)
    \/ \E id \in SessionIds : ListTools(id)
    \/ \E id \in SessionIds : ListResources(id)
    \/ \E id \in SessionIds : ListPrompts(id)
    \/ \E id \in SessionIds, request \in PendingRequests :
          CallbackStarts(id, request.op, request.params)
    \/ \E id \in SessionIds, cbThrows \in BOOLEAN : CallbackSettled(id, cbThrows)

SpecPending == ServerInit /\ [][PendingNext]_vars

\* every operation of the session other that its own state allows can be
\* taken
SessionOperationsEnabled(other) ==
    /\ (started /\ conn[other].phase = "idle") =>
          \A key \in PendingKeys, query \in Queries : ENABLED SseRequest(other, key, query)
    /\ conn[other].phase = "connecting" => ENABLED ConnectResolves(other)
    /\ (conn[other].phase # "idle" /\ ~conn[other].closed) => ENABLED ReqClose(other)
    /\ conn[other].phase = "active" =>
          /\ ENABLED ListTools(other)
          /\ ENABLED ListResources(other)
          /\ ENABLED ListPrompts(other)
          /\ \A request \in PendingRequests :
                (/\ conn[other].pending = None
                 /\ handlerReply(request.op, other, request.params, FALSE).invoked # <<>>
                 /\ IsFn(handlerReply(request.op, other, request.params,
                                      FALSE).invoked[1].callback)) =>
                    ENABLED CallbackStarts(other, request.op, request.params)

\* every registration and every SessionManager call can be taken
RegistryOperationsEnabled ==
    /\ \A name \in ToolNames, rest \in ToolRests : ENABLED RegisterTool(name, rest)
    /\ \A name \in ResourceNames, rest \in ResourceRests :
          ENABLED RegisterResource(name, rest)
    /\ \A name \in PromptNames, rest \in PromptRests : ENABLED RegisterPrompt(name, rest)
    /\ \A id \in SessionIds :
          /\ ENABLED SmGetClientContext(id)
          /\ ENABLED SmGetReqQuery(id)
          /\ ENABLED SmGetSseReqQuery(id)
          /\ ENABLED SmRemove(id)
    /\ ENABLED SmGetSessionCount

----------------------------------------------------------------------------
(* Registrations that interleave with serving (checked under SpecList).    *)

\* what a listing request of session id is answered with in this state
ListingOf(op, id) ==
    IF op = "tools/list" THEN listTools(id)
    ELSE IF op = "resources/list" THEN listResources(id)
    ELSE listPrompts(id)

\* a listing of session id shows the whole of every allowed record of the
\* registry as the completed registration calls left it
ListingShowsRegistry(op, id) ==
    LET registry == RegistryOf(op)
        path == getClientContext(clientContexts, id).urlGroups
        outcome == ListingOf(op, id)
    IN  /\ outcome.kind = "result"
        /\ ListedNames(outcome) = AllowedKeys(registry, path)

ListingShowsRegistryUnlessUnlistable(op, id) ==
    LET path == getClientContext(clientContexts, id).urlGroups IN
    IF op = "resources/list" /\ HasUnlistableVisible(path)
    THEN ListingOf(op, id) = Throw(Error("Invalid resource registration found"))
    ELSE ListingShowsRegistry(op, id)

\* a registration call completed while session id was connected
RegisteredWhileConnected(id) ==
    /\ Serving(id)
    /\ MapHas(clientContexts, id)
    /\ regVars' # regVars

\* C26: registrations interleave with serving; a listing observes the
\* registry as the completed registration calls left it, whole records
\* only, and a capability registered after a session connected is visible
\* to that session's next listing when its group is allowed.
RegisteredAfterConnectIsListed ==
    [][\A id \in ServeIds :
          RegisteredWhileConnected(id) =>
              \A op \in ListOps : ListingShowsRegistry(op, id)']_vars

\* what holds of the code: so it is unless an allowed resource is a
\* fixed-uri record with an empty uri, on which list-resources fails
RegisteredAfterConnectIsListedUnlessUnlistable ==
    [][\A id \in ServeIds :
          RegisteredWhileConnected(id) =>
              \A op \in ListOps : ListingShowsRegistryUnlessUnlistable(op, id)']_vars

----------------------------------------------------------------------------
(* The probe timer (checked under SpecLife).                               *)

\* the connection is Active: its handshake has completed and its request
\* has not closed
Active(id) == conn[id].phase = "active" /\ ~conn[id].closed

\* a second clearInterval of the same timer: the timer stays cancelled
SecondCancelChangesNothing ==
    \A id \in SessionIds :
        ((ReqClose(id) \/ ReqEnd(id)) /\ ~conn[id].heartbeat) => ~conn'[id].heartbeat

\* C27: a liveness probe of a connection is sent only while the connection
\* is Active, none before its handshake has completed and none after it has
\* closed, in every interleaving of handshake, ticks and close/end events;
\* cancelling the timer a second time changes nothing.
ProbeOnlyWhileActive ==
    [][/\ \A id \in SessionIds, outcome \in ProbeOutcomes :
             HeartbeatTick(id, outcome) => Active(id)
       /\ SecondCancelChangesNothing]_vars

\* what holds of the code: no probe before the handshake has completed and
\* none after the close handler has run
ProbeOnlyBetweenHandshakeAndCloseHandler ==
    [][/\ \A id \in SessionIds, outcome \in ProbeOutcomes :
             HeartbeatTick(id, outcome) =>
                 (conn[id].phase = "active" /\ ~conn[id].removed)
       /\ SecondCancelChangesNothing]_vars

----------------------------------------------------------------------------
(* The session during the handshake and after (checked under SpecLife).    *)

\* the handshake of the connection has started and its close handler has
\* not run
OpenedAndNotCleaned(id) == conn[id].phase # "idle" /\ ~conn[id].removed

\* C28: the session is registered before the handshake starts, so from the
\* start of the handshake until the connection's close handler runs the
\* session id resolves in the SessionRegistry, to the connection's own
\* context, and every message handled for the connection in that interval
\* finds its session.
SessionResolvesFromHandshakeToClose ==
    /\ \A id \in SessionIds :
          OpenedAndNotCleaned(id) =>
              /\ MapHas(clientContexts, id)
              /\ getClientContext(clientContexts, id).sessionId = id
    /\ (/\ resp.op = "message"
        /\ resp.sessionId \in SessionIds
        /\ OpenedAndNotCleaned(resp.sessionId)) =>
          /\ resp.outcome.status = 202
          /\ resp.outcome.handed = <<resp.sessionId>>

\* a message was handled for a connection whose handshake was pending
MessageHandledDuringHandshake ==
    /\ resp.op = "message"
    /\ resp.sessionId \in SessionIds
    /\ conn[resp.sessionId].phase = "connecting"
    /\ resp.outcome.handed = <<resp.sessionId>>

----------------------------------------------------------------------------
(* What a close leaves alone (checked under SpecPending, which has two     *)
(* connections and the registrations).                                     *)

\* C29: closing one connection affects only that connection: its close
\* handler removes only the session registered under its own id and
\* cancels only its own probe timer; every other session's registry entry,
\* permission path, query snapshot and timer, and the three capability
\* registries, are unchanged.
CloseAffectsOnlyItsConnection ==
    [][\A id \in SessionIds :
          ReqClose(id) =>
              /\ \A other \in SessionIds \ {id} :
                    /\ MapHas(clientContexts', other) = MapHas(clientContexts, other)
                    /\ getClientContext(clientContexts', other) =
                          getClientContext(clientContexts, other)
                    /\ conn'[other] = conn[other]
              /\ MapKeys(clientContexts') =
                    IF conn'[id].removed
                    THEN SelectSeq(MapKeys(clientContexts), LAMBDA k : k # id)
                    ELSE MapKeys(clientContexts)
              /\ regVars' = regVars
              /\ enableUrlGroups' = enableUrlGroups]_vars

\* one connection has closed and its session is gone while the other is
\* still registered, its timer running, and a capability is registered
ClosedBesideLiveSession ==
    \E id \in SessionIds, other \in SessionIds :
        /\ id # other
        /\ conn[id].removed
        /\ ~MapHas(clientContexts, id)
        /\ MapHas(clientContexts, other)
        /\ conn[other].heartbeat
        /\ Len(registeredTools) > 0

----------------------------------------------------------------------------
(* What a failed request leaves alone (checked under SpecCall).            *)

\* the request ended in an error: a thrown one, or a tool's in-band one
EndedInError(r) ==
    \/ r.outcome.kind = "throw"
    \/ r.outcome.kind = "result" /\ r.outcome.isError

\* C30: a request that ends in a request-validation error (unknown
\* capability, access denied, invalid arguments, template mismatch) or in
\* a callback error leaves the connection open: the SessionRegistry, the
\* caller's permission path and query snapshot, its probe timer and the
\* three capability registries are the same after the request as before.
FailedRequestChangesNothing ==
    [][(resp'.op \in InvokeOps /\ EndedInError(resp')) =>
          /\ clientContexts' = clientContexts
          /\ conn' = conn
          /\ regVars' = regVars
          /\ enableUrlGroups' = enableUrlGroups]_vars

\* a read-resource request was denied on a connection that is open, its
\* session registered and its timer running
DeniedOnOpenConnection ==
    /\ resp.op = "resources/read"
    /\ IsAccessDenied(resp.outcome)
    /\ MapHas(clientContexts, resp.sessionId)
    /\ Active(resp.sessionId)
    /\ conn[resp.sessionId].heartbeat

----------------------------------------------------------------------------
(* Routing of posted messages (checked under SpecLife).                    *)

\* C31: handleMessage routes by session id: a message without sessionId is
\* answered 400, one whose sessionId is not registered 404, and any other
\* is handed once to the transport of the context registered under that
\* sessionId and to no other; handleMessage never changes the
\* SessionRegistry.
MessageIsRoutedBySessionId ==
    [][resp'.op = "message" =>
          /\ clientContexts' = clientContexts
          /\ IF resp'.sessionId = ""
             THEN /\ resp'.outcome.status = 400
                  /\ resp'.outcome.handed = <<>>
             ELSE IF ~MapHas(clientContexts, resp'.sessionId)
             THEN /\ resp'.outcome.status = 404
                  /\ resp'.outcome.handed = <<>>
             ELSE resp'.outcome.handed =
                     <<MapGet(clientContexts, resp'.sessionId).sessionId>>]_vars

\* a message was handed to the session registered second while another
\* session was registered too
MessageRoutedAmongTwoSessions ==
    /\ resp.op = "message"
    /\ Len(clientContexts) = 2
    /\ resp.sessionId = clientContexts[2].key
    /\ resp.outcome.handed = <<resp.sessionId>>

----------------------------------------------------------------------------
(* The permission path of a session: two connections on addresses with     *)
(* repeated and empty segments, the registrations of a grouped tool,       *)
(* resource and prompt, clearUrlGroups, and the requests.                  *)

\* clientContext.clearUrlGroups() on the context registered under id
ClearUrlGroups(id) ==
    /\ MapHas(clientContexts, id)
    /\ clientContexts' = MapSet(clientContexts, id,
                                [MapGet(clientContexts, id) EXCEPT !.urlGroups = <<>>])
    /\ resp' = None
    /\ UNCHANGED <<enableUrlGroups, permVars, smVars, startVars, conn, regVars>>

\* the addresses of the first connection: "", "g/h", "g/g" and "g//h"; the
\* second connects on "g/g"
PathKeys(id) ==
    IF id = "s1"
    THEN {<<>>, <<"g", "/", "h">>, <<"g", "/", "g">>, <<"g", "/", "/", "h">>}
    ELSE {<<"g", "/", "g">>}

\* tool("g/h/a", cb), resource("g/a", "u:x", cb), resource("g/a", "", {}, cb)
\* and prompt("g/a", cb)
PathRegistrations ==
    \/ RegisterTool(<<"g", "/", "h", "/", "a">>, <<Fn("t1")>>)
    \/ RegisterResource(<<"g", "/", "a">>, <<Str(<<"u", ":", "x">>), Fn("r1")>>)
    \/ RegisterResource(<<"g", "/", "a">>, <<Str(<<>>), Obj(<<>>), Fn("r2")>>)
    \/ RegisterPrompt(<<"g", "/", "a">>, <<Fn("p1")>>)

\* the requests for these three capabilities
PathRequests ==
    {[op |-> "tools/call", params |-> [name |-> <<"g", "_", "h", "/", "a">>,
                                       arguments |-> Null]],
     [op |-> "resources/read", params |-> [name |-> <<"g", "/", "a">>,
                                           uri |-> <<"u", ":", "x">>]],
     [op |-> "prompts/get", params |-> [name |-> <<"g", "_", "a">>, arguments |-> Null]]}

PathNext ==
    \/ PathRegistrations
    \/ Start([transportType |-> "sse"])
    \/ \E id \in SessionIds, query \in Queries :
          \E key \in PathKeys(id) : SseRequest(id, key, query)
    \/ \E id \in SessionIds : ConnectResolves(id)
    \/ \E id \in SessionIds : ReqClose(id)
    \/ \E id \in SessionIds : ClearUrlGroups(id)
    \/ \E id \in SessionIds : ListTools(id)
    \/ \E id \in SessionIds : ListResources(id)
    \/ \E id \in SessionIds : ListPrompts(id)
    \/ \E id \in SessionIds, request \in PathRequests :
          \/ request.op = "tools/call" /\ CallTool(id, request.params, FALSE)
          \/ request.op = "resources/read" /\ ReadResource(id, request.params, FALSE)
          \/ request.op = "prompts/get" /\ GetPrompt(id, request.params, FALSE)

SpecPath == ServerInit /\ [][PathNext]_vars

\* path is the address's "/"-separated segments, in order, none discarded:
\* the empty address has no segment, any other is its segments joined
IsPathOf(path, address) ==
    IF address = <<>> THEN path = <<>>
    ELSE /\ Len(path) > 0
         /\ \A i \in 1..Len(path) : ~HasSeparator(path[i])
         /\ JoinSegments(path) = address

\* C32: a session's permission path is derived once, at connection-open,
\* from the connection address: the empty address gives the empty path,
\* any other its "/"-separated segments in order, repeated and empty ones
\* kept; the path then stays the same for the life of the session unless
\* it is explicitly cleared.
PathIsDerivedOnceAtOpen ==
    [][\A id \in SessionIds :
          /\ (~MapHas(clientContexts, id) /\ MapHas(clientContexts', id)) =>
                \A key \in PathKeys(id), query \in Queries :
                    SseRequest(id, key, query) =>
                        IsPathOf(getClientContext(clientContexts', id).urlGroups, key)
          /\ (/\ MapHas(clientContexts, id)
              /\ MapHas(clientContexts', id)
              /\ getClientContext(clientContexts', id).urlGroups #
                    getClientContext(clientContexts, id).urlGroups) =>
                ClearUrlGroups(id)]_vars

\* a session on the address "g//h" is served with the path [g, "", h]
PathWithEmptySegmentServed ==
    /\ resp.op \in ListOps
    /\ MapHas(clientContexts, resp.sessionId)
    /\ getClientContext(clientContexts, resp.sessionId).urlGroups =
          << <<"g">>, <<>>, <<"h">> >>

\* the session's path was cleared: it connected on an address, and its
\* path is empty
Cleared(contexts, id) ==
    /\ MapHas(contexts, id)
    /\ getClientContext(contexts, id).uri # <<>>
    /\ getClientContext(contexts, id).urlGroups = <<>>

\* clearUrlGroups empties the path of the session and changes nothing else
ClearChangesPathOnly ==
    \A id \in SessionIds :
        ClearUrlGroups(id) =>
            /\ getClientContext(clientContexts', id) =
                  [getClientContext(clientContexts, id) EXCEPT !.urlGroups = <<>>]
            /\ MapKeys(clientContexts') = MapKeys(clientContexts)
            /\ \A other \in SessionIds \ {id} :
                  getClientContext(clientContexts', other) =
                      getClientContext(clientContexts, other)
            /\ conn' = conn
            /\ regVars' = regVars

\* C33: clearUrlGroups on a session sets its permission path to the empty
\* path, so every later listing for it returns the whole registry and no
\* later invocation by it is denied; it changes nothing else.
ClearedPathSeesEverything ==
    [][/\ (clientContexts' # clientContexts /\ conn' = conn) => ClearChangesPathOnly
       /\ (resp'.op \in ListOps /\ Cleared(clientContexts, resp'.sessionId)) =>
             /\ resp'.outcome.kind = "result"
             /\ ListedNames(resp'.outcome) = MapKeys(RegistryOf(resp'.op))
       /\ (resp'.op \in InvokeOps /\ Cleared(clientContexts, resp'.sessionId)) =>
             ~IsAccessDenied(resp'.outcome)]_vars

\* what holds of the code: so it is, except that list-resources fails as a
\* whole when a fixed-uri record with an empty uri is registered
ClearedPathSeesEverythingUnlessUnlistable ==
    [][/\ (clientContexts' # clientContexts /\ conn' = conn) => ClearChangesPathOnly
       /\ (resp'.op \in ListOps /\ Cleared(clientContexts, resp'.sessionId)) =>
             IF resp'.op = "resources/list" /\ HasUnlistableVisible(<<>>)
             THEN resp'.outcome = Throw(Error("Invalid resource registration found"))
             ELSE /\ resp'.outcome.kind = "result"
                  /\ ListedNames(resp'.outcome) = MapKeys(RegistryOf(resp'.op))
       /\ (resp'.op \in InvokeOps /\ Cleared(clientContexts, resp'.sessionId)) =>
             ~IsAccessDenied(resp'.outcome)]_vars

-----------------------------------------------------------------------------
(* The three registries under registrations of the same names, beside a    *)
(* session that connects, lists, invokes and closes.                       *)

\* "a", "g/a"
GrowNames == {<<"a">>, <<"g", "/", "a">>}

\* tool(name, cb), resource(name, "u:x", cb), resource(name, "u:x") (which
\* throws) and prompt(name, cb)
GrowRegistrations ==
    \/ \E name \in GrowNames :
          /\ RoomFor(MaxGrowRegs, registeredTools, toolRecord(name, <<Fn("t1")>>).name)
          /\ RegisterTool(name, <<Fn("t1")>>)
    \/ \E name \in GrowNames,
          rest \in {<<Str(<<"u", ":", "x">>), Fn("r1")>>, <<Str(<<"u", ":", "x">>)>>} :
          /\ RoomFor(MaxGrowRegs, registeredResources, name)
          /\ RegisterResource(name, rest)
    \/ \E name \in GrowNames :
          /\ RoomFor(MaxGrowRegs, registeredPrompts, promptRecord(name, <<Fn("p1")>>).name)
          /\ RegisterPrompt(name, <<Fn("p1")>>)

GrowRequests ==
    {[op |-> "tools/call", params |-> [name |-> <<"a">>, arguments |-> Null]],
     [op |-> "resources/read", params |-> [name |-> <<"a">>, uri |-> <<"u", ":", "x">>]],
     [op |-> "prompts/get", params |-> [name |-> <<"g", "_", "a">>, arguments |-> Null]]}

GrowNext ==
    \/ GrowRegistrations
    \/ \E options \in StartOptions : Start(options)
    \/ \E query \in Queries : SseRequest("s1", <<"g">>, query)
    \/ ConnectResolves("s1")
    \/ ReqClose("s1")
    \/ ClearUrlGroups("s1")
    \/ ListTools("s1")
    \/ ListResources("s1")
    \/ ListPrompts("s1")
    \/ \E request \in GrowRequests, cbThrows \in BOOLEAN :
          \/ request.op = "tools/call" /\ CallTool("s1", request.params, cbThrows)
          \/ request.op = "resources/read" /\ ReadResource("s1", request.params, cbThrows)
          \/ request.op = "prompts/get" /\ GetPrompt("s1", request.params, cbThrows)

SpecGrow == ServerInit /\ [][GrowNext]_vars

\* every key of registry is a key of later
KeepsKeys(registry, later) ==
    \A i \in 1..Len(registry) : MapHas(later, registry[i].key)

\* C34: the three capability registries are independent and only grow: a
\* step that changes one registry changes no other, removes no key of any
\* registry, and is no connection, listing, invocation or session operation.
RegistriesOnlyGrow ==
    [][regVars' # regVars =>
          /\ KeepsKeys(registeredTools, registeredTools')
          /\ KeepsKeys(registeredResources, registeredResources')
          /\ KeepsKeys(registeredPrompts, registeredPrompts')
          /\ registeredTools' # registeredTools =>
                /\ registeredResources' = registeredResources
                /\ registeredPrompts' = registeredPrompts
          /\ registeredResources' # registeredResources =>
                registeredPrompts' = registeredPrompts
          /\ resp' = None
          /\ clientContexts' = clientContexts
          /\ conn' = conn
          /\ startVars' = startVars]_vars

\* the name "a" is registered in all three registries, and the session was
\* served and then closed
SameNameInAllThree ==
    /\ MapHas(registeredTools, <<"a">>)
    /\ MapHas(registeredResources, <<"a">>)
    /\ MapHas(registeredPrompts, <<"a">>)
    /\ resp.op \in InvokeOps
    /\ conn["s1"].removed

-----------------------------------------------------------------------------
(* The order of the checks of an invocation (checked under SpecCall).      *)

\* the reply to a name that is no key of the registry
IsNotFound(r) ==
    r.outcome = Throw(McpError("InvalidParams", <<NotFoundText(r.op), r.params.name>>))

\* C35: each invocation applies its checks in the order lookup, permission,
\* argument validation, dispatch, and reports the earliest check that fails:
\* an unknown name is 'not found' whatever else is wrong with the request, a
\* known name the session is not allowed for is 'access denied' whatever its
\* arguments or uri are, and only an allowed request gets further.
EarliestFailedCheckIsReported ==
    (resp.op \in InvokeOps /\ MapHas(clientContexts, resp.sessionId)) =>
        IF LookedUp = Null
        THEN IsNotFound(resp) /\ resp.invoked = <<>>
        ELSE IF DeniedInvocation
        THEN IsAccessDenied(resp.outcome) /\ resp.invoked = <<>>
        ELSE ~IsNotFound(resp) /\ ~IsAccessDenied(resp.outcome)

\* what holds of the code: read-resource and get-prompt check in that
\* order; call-tool goes from the lookup to the validation of the arguments
\* and never reports 'access denied'
EarliestFailedCheckIsReportedButForTools ==
    (resp.op \in InvokeOps /\ MapHas(clientContexts, resp.sessionId)) =>
        IF LookedUp = Null
        THEN IsNotFound(resp) /\ resp.invoked = <<>>
        ELSE IF DeniedInvocation /\ resp.op # "tools/call"
        THEN IsAccessDenied(resp.outcome) /\ resp.invoked = <<>>
        ELSE ~IsNotFound(resp) /\ ~IsAccessDenied(resp.outcome)

-----------------------------------------------------------------------------
(* Invocations of a session that was removed while its connection is       *)
(* still served (checked under SpecCall).                                  *)

\* the outcomes an invocation is specified to end in: a result (for tools
\* an in-band error result too), a protocol error, or what the callback
\* that ran made of it
IsSpecifiedOutcome(r) ==
    \/ r.outcome.kind = "result"
    \/ /\ r.outcome.kind = "throw"
       /\ r.outcome.error.kind = "McpError"
       /\ r.outcome.error.code \in {"InvalidParams", "InternalError"}
    \/ r.invoked # <<>>

\* the last request is an invocation of a session that is registered no
\* more, and the validation of its arguments itself did not throw
InvocationAfterRemoval ==
    /\ resp.op \in InvokeOps
    /\ ~MapHas(clientContexts, resp.sessionId)
    /\ ~(/\ resp.op = "tools/call"
         /\ LookedUp # Null
         /\ LookedUp.inputSchema # Null
         /\ safeParseAsync(LookedUp.inputSchema, resp.params.arguments).threw)

\* C36: an invocation that is handled after its session was removed ends in
\* a specified outcome only (a protocol error, the callback's result, for
\* tools an in-band error result): the removal makes no other failure
\* escape the handler.
RemovedSessionEndsAsSpecified ==
    InvocationAfterRemoval => IsSpecifiedOutcome(resp)

\* what holds of the code: such a request ends as specified when its name is
\* unknown, when its tool has no schema or when its arguments are invalid;
\* otherwise the handler reads a property of the missing context and a
\* TypeError escapes it, the callback not invoked
RemovedSessionEndsAsSpecifiedOrInTypeError ==
    InvocationAfterRemoval =>
        IF \/ LookedUp = Null
           \/ resp.op = "tools/call" /\ LookedUp.inputSchema = Null
           \/ /\ resp.op = "tools/call"
              /\ ~safeParseAsync(LookedUp.inputSchema, resp.params.arguments).success
        THEN IsSpecifiedOutcome(resp)
        ELSE resp.outcome = Throw(TypeError) /\ resp.invoked = <<>>

-----------------------------------------------------------------------------
(* The 'invalid resource registration' branches of the two resource        *)
(* handlers.                                                               *)

\* the request ended in the branch of its handler that is meant for a
\* record of neither kind
ReachedInvalidRegistrationBranch(r) ==
    \/ /\ r.op = "resources/list"
       /\ r.outcome = Throw(Error("Invalid resource registration found"))
    \/ /\ r.op = "resources/read"
       /\ r.outcome = Throw(McpError("InternalError",
                                     <<"Invalid resource registration state", r.params.name>>))

\* C37: for every registry state reachable through resource() calls (a
\* concrete uri that is the empty string included), neither list-resources
\* nor read-resource reaches its 'invalid resource registration' branch.
InvalidRegistrationBranchIsUnreachable ==
    resp.op \in {"resources/list", "resources/read"} =>
        ~ReachedInvalidRegistrationBranch(resp)

\* what holds of the code: read-resource never reaches its branch (it tests
\* the record's type alone), and list-resources reaches its own exactly when
\* a record the session is allowed to see has an empty uri
InvalidRegistrationBranchOnlyForEmptyUri ==
    /\ resp.op = "resources/read" => ~ReachedInvalidRegistrationBranch(resp)
    /\ (resp.op = "resources/list" /\ MapHas(clientContexts, resp.sessionId)) =>
          (ReachedInvalidRegistrationBranch(resp) <=>
              \E i \in 1..Len(registeredResources) :
                  /\ hasPermission(registeredResources[i].value.group,
                                   getClientContext(clientContexts, resp.sessionId).urlGroups)
                  /\ registeredResources[i].value.type = "uri"
                  /\ registeredResources[i].value.uri.v = <<>>)

-----------------------------------------------------------------------------
(* Tools and prompts registered under names that differ in "/" and "_"     *)
(* only, beside a session that lists them.                                 *)

\* "g/a", "g_a", "a"
ClashNames == {<<"g", "/", "a">>, <<"g", "_", "a">>, <<"a">>}

\* tool(name, cb) and tool(name, 'd', {x}, cb)
ClashToolRests == ToolRests
\* prompt(name, cb) and prompt(name, z.object({x?}), cb)
ClashPromptRests == {<<Fn("p1")>>,
                     <<ZodSchema(<<[name |-> "x", optional |-> TRUE]>>), Fn("p2")>>}

ClashRegistrations ==
    \/ \E name \in ClashNames, rest \in ClashToolRests :
          /\ RoomFor(MaxClashRegs, registeredTools, toolRecord(name, rest).name)
          /\ RegisterTool(name, rest)
    \/ \E name \in ClashNames, rest \in ClashPromptRests :
          /\ RoomFor(MaxClashRegs, registeredPrompts, promptRecord(name, rest).name)
          /\ RegisterPrompt(name, rest)

ClashNext ==
    \/ ClashRegistrations
    \/ \E options \in StartOptions : Start(options)
    \/ \E query \in Queries : SseRequest("s1", <<"g">>, query)
    \/ ConnectResolves("s1")
    \/ ReqClose("s1")
    \/ ListTools("s1")
    \/ ListPrompts("s1")

SpecClash == ServerInit /\ [][ClashNext]_vars

\* the entry of registry that only a registration under name can have
\* stored: it is the record of such a call, and of no call under another
\* name of names
StoredUnder(registry, name, names, rests, record(_, _)) ==
    LET entry == MapGet(registry, record(name, rests[1]).name) IN
    /\ entry # Null
    /\ \E i \in 1..Len(rests) : entry = record(name, rests[i])
    /\ \A other \in names \ {name} : \A i \in 1..Len(rests) : entry # record(other, rests[i])

\* the sets of rests as sequences
SeqOf(set) == CHOOSE s \in [1..Cardinality(set) -> set] : {s[i] : i \in 1..Len(s)} = set

\* C38: registering a tool (or prompt) under one name never replaces or
\* changes the entry of a tool (or prompt) that was registered under a
\* different name: the entry a registration under a name stored is the same
\* after every registration under another name.
OtherNamesKeepTheirEntries ==
    [][/\ registeredTools' # registeredTools =>
             \A name \in ClashNames :
                 (/\ StoredUnder(registeredTools, name, ClashNames,
                                 SeqOf(ClashToolRests), toolRecord)
                  /\ \A rest \in ClashToolRests : ~RegisterTool(name, rest)) =>
                     MapGet(registeredTools', toolRecord(name, <<>>).name) =
                         MapGet(registeredTools, toolRecord(name, <<>>).name)
       /\ registeredPrompts' # registeredPrompts =>
             \A name \in ClashNames :
                 (/\ StoredUnder(registeredPrompts, name, ClashNames,
                                 SeqOf(ClashPromptRests), promptRecord)
                  /\ \A rest \in ClashPromptRests : ~RegisterPrompt(name, rest)) =>
                     MapGet(registeredPrompts', promptRecord(name, <<>>).name) =
                         MapGet(registeredPrompts, promptRecord(name, <<>>).name)]_vars

\* what holds of the code: a registration changes the entry of its own key
\* and no other, and two names have the same key exactly when they are the
\* same once the first "/" of each is replaced by "_"
OtherKeysKeepTheirEntries ==
    [][/\ registeredTools' # registeredTools =>
             \E name \in ClashNames :
                 \A i \in 1..Len(registeredTools) :
                     registeredTools[i].key # StrReplaceFirst(name, "/", "_") =>
                         MapGet(registeredTools', registeredTools[i].key) =
                             registeredTools[i].value
       /\ registeredPrompts' # registeredPrompts =>
             \E name \in ClashNames :
                 \A i \in 1..Len(registeredPrompts) :
                     registeredPrompts[i].key # StrReplaceFirst(name, "/", "_") =>
                         MapGet(registeredPrompts', registeredPrompts[i].key) =
                             registeredPrompts[i].value]_vars

-----------------------------------------------------------------------------
(* Two sessions of which one's path is a prefix of the other's, listing    *)
(* the same registry.                                                      *)

\* the addresses "" and "g" for the first session, "g/h" for the second
MonoKeys(id) == IF id = "s1" THEN {<<>>, <<"g">>} ELSE {<<"g", "/", "h">>}

\* tool("g/h/a", cb), prompt("g/h/a", cb), resource("g/h/a", "u:x", cb) and
\* resource("g/b", "", {}, cb)
MonoRegistrations ==
    \/ RegisterTool(<<"g", "/", "h", "/", "a">>, <<Fn("t1")>>)
    \/ RegisterPrompt(<<"g", "/", "h", "/", "a">>, <<Fn("p1")>>)
    \/ RegisterResource(<<"g", "/", "h", "/", "a">>, <<Str(<<"u", ":", "x">>), Fn("r1")>>)
    \/ RegisterResource(<<"g", "/", "b">>, <<Str(<<>>), Obj(<<>>), Fn("r2")>>)

MonoNext ==
    \/ MonoRegistrations
    \/ \E options \in StartOptions : Start(options)
    \/ \E id \in SessionIds, query \in Queries :
          \E key \in MonoKeys(id) : SseRequest(id, key, query)
    \/ \E id \in SessionIds : ConnectResolves(id)
    \/ \E id \in SessionIds : ReqClose(id)
    \/ \E id \in SessionIds : ListTools(id)
    \/ \E id \in SessionIds : ListResources(id)
    \/ \E id \in SessionIds : ListPrompts(id)

SpecMono == ServerInit /\ [][MonoNext]_vars

\* a listing of a registered session has just been answered while another
\* session is registered whose path is an index-wise prefix of the caller's
ListedBesideLessSpecific(other) ==
    /\ resp.op \in ListOps
    /\ resp.outcome.kind = "result"
    /\ other # resp.sessionId
    /\ MapHas(clientContexts, resp.sessionId)
    /\ MapHas(clientContexts, other)
    /\ IsPrefixOf(getClientContext(clientContexts, other).urlGroups,
                  getClientContext(clientContexts, resp.sessionId).urlGroups)

\* C39: visibility is monotone in the session path: when s1 is an index-wise
\* prefix of s2, every capability listed for a session with path s2 is also
\* listed for a session with path s1.
VisibilityIsMonotone ==
    \A other \in SessionIds :
        ListedBesideLessSpecific(other) =>
            \A i \in 1..Len(resp.outcome.list) :
                /\ ListingOf(resp.op, other).kind = "result"
                /\ \E j \in 1..Len(ListingOf(resp.op, other).list) :
                      ListingOf(resp.op, other).list[j] = resp.outcome.list[i]

\* what holds of the code: so it is, except that list-resources of the less
\* specific session fails as a whole when it is allowed to see a fixed-uri
\* record with an empty uri
VisibilityIsMonotoneUnlessUnlistable ==
    \A other \in SessionIds :
        ListedBesideLessSpecific(other) =>
            IF /\ resp.op = "resources/list"
               /\ HasUnlistableVisible(getClientContext(clientContexts, other).urlGroups)
            THEN ListingOf(resp.op, other) = Throw(Error("Invalid resource registration found"))
            ELSE /\ ListingOf(resp.op, other).kind = "result"
                 /\ \A i \in 1..Len(resp.outcome.list) :
                       \E j \in 1..Len(ListingOf(resp.op, other).list) :
                           ListingOf(resp.op, other).list[j] = resp.outcome.list[i]

-----------------------------------------------------------------------------
(* What a listing depends on (checked under SpecMono).                     *)

\* the answer of a listing as the registry, the enforcement flag and a
\* permission path alone determine it
ListingFor(op, path) ==
    LET visible == SelectSeq(RegistryOf(op), LAMBDA e : hasPermission(e.value.group, path)) IN
    IF op = "tools/list"
    THEN [kind |-> "result",
          list |-> [i \in 1..Len(visible) |->
                      [name |-> visible[i].key,
                       description |-> visible[i].value.description,
                       inputSchema |-> toolInputSchema(visible[i].value)]]]
    ELSE IF op = "prompts/list"
    THEN [kind |-> "result",
          list |-> [i \in 1..Len(visible) |->
                      [name |-> visible[i].key,
                       description |-> visible[i].value.description,
                       arguments |-> IF visible[i].value.argsSchema # Null
                                     THEN promptArgumentsFromSchema(visible[i].value.argsSchema)
                                     ELSE <<>>]]]
    ELSE IF \E i \in 1..Len(visible) : ~listableResource(visible[i].value)
    THEN Throw(Error("Invalid resource registration found"))
    ELSE [kind |-> "result",
          list |-> [i \in 1..Len(visible) |->
                      LET resource == visible[i].value IN
                      IF resource.type = "uri"
                      THEN [name |-> visible[i].key,
                            uri |-> resource.uri.v,
                            metadata |-> resource.metadata]
                      ELSE [name |-> visible[i].key,
                            uri |-> resource.template.uriTemplate,
                            variables |-> extractVariableNames(resource.template.uriTemplate),
                            metadata |-> resource.metadata]]]

\* C40: the answer to a listing of a registered session depends only on
\* the capability registry, the enforcement flag and the session's own
\* permission path: it is the same function of these three whatever other
\* sessions exist, whatever their paths, and whatever they registered,
\* requested or closed.
ListingDependsOnOwnPathOnly ==
    (resp.op \in ListOps /\ MapHas(clientContexts, resp.sessionId)) =>
        resp.outcome = ListingFor(resp.op, MapGet(clientContexts, resp.sessionId).urlGroups)

\* the second session was shown a resource while the first, connected
\* before it on another path, would be answered differently
ListedBesideSessionOnOtherPath ==
    /\ resp.op = "resources/list"
    /\ resp.sessionId = "s2"
    /\ resp.outcome.kind = "result"
    /\ resp.outcome.list # <<>>
    /\ Len(clientContexts) = 2
    /\ clientContexts[1].key = "s1"
    /\ clientContexts[1].value.urlGroups # clientContexts[2].value.urlGroups
    /\ listResources("s1") # resp.outcome

=============================================================================
